---- MODULE Spec2Model ----
(***************************************************************************)
(* New Caledonia Commune Locator: coordinate parsing, region resolution,   *)
(* name search and the selection / highlight state of assets/js/app.js.    *)
(*                                                                         *)
(* Text is a sequence of one-character tokens.  Characters outside ASCII   *)
(* are written with a mnemonic token: "deg" is U+00B0, "prime" U+2032,     *)
(* "dprime" U+2033, "dq" the ASCII double quote, "e_acute" U+00E9,         *)
(* "E_acute" U+00C9 and "acute" the combining mark U+0301.                 *)
(*                                                                         *)
(* Numbers are exact multiples of 1/Scale degree (JavaScript computes the  *)
(* same values in binary floating point); every input used has at most     *)
(* three fractional digits in degrees, two in minutes and one in seconds,  *)
(* so each is represented exactly.  Exponent notation is not entered.      *)
(***************************************************************************)
EXTENDS Integers, Sequences, FiniteSets, TLC

\* ---------------------------------------------------------------- numbers
Scale == 3600 * 10

Deg(n) == n * Scale

\* n + m/1000 degrees
Dec(n, m) == n * Scale + m * 36

\* a JavaScript number-valued expression: a finite number, NaN or null
Num(x) == [t |-> "num", v |-> x]

NaN == [t |-> "NaN", v |-> 0]

NullNum == [t |-> "null", v |-> 0]

\* a nullable reference: Null or Some(x)
Null == <<>>

Some(x) == <<x>>

Abs(x) == IF x < 0 THEN -x ELSE x

\* ------------------------------------------------------------- characters
Digits == {"0", "1", "2", "3", "4", "5", "6", "7", "8", "9"}

DigitVal(c) ==
  CASE c = "0" -> 0 [] c = "1" -> 1 [] c = "2" -> 2 [] c = "3" -> 3
    [] c = "4" -> 4 [] c = "5" -> 5 [] c = "6" -> 6 [] c = "7" -> 7
    [] c = "8" -> 8 [] c = "9" -> 9

Pow10(k) == CASE k = 0 -> 1 [] k = 1 -> 10 [] k = 2 -> 100 [] k = 3 -> 1000
              [] OTHER -> 10000


\* first position >= i whose character is not in set (Len(s)+1 when none)
RECURSIVE ScanWhile(_, _, _)
ScanWhile(s, i, set) ==
  IF i <= Len(s) /\ s[i] \in set THEN ScanWhile(s, i + 1, set) ELSE i

RECURSIVE ScanBack(_, _, _)
ScanBack(s, i, set) ==
  IF i >= 1 /\ s[i] \in set THEN ScanBack(s, i - 1, set) ELSE i

\* String.prototype.trim
trim(s) ==
  LET a == ScanWhile(s, 1, {" "})
      b == ScanBack(s, Len(s), {" "})
  IN IF a > b THEN <<>> ELSE SubSeq(s, a, b)

RECURSIVE DigitsValue(_, _, _)
\* integer value of the digits s[i..j]
DigitsValue(s, i, j) ==
  IF i > j THEN 0 ELSE DigitsValue(s, i, j - 1) * 10 + DigitVal(s[j])

RECURSIVE FractionValue(_, _, _, _)
\* value, in 1/Scale, of the fractional digits s[i..j]; k is the place of s[i]
FractionValue(s, i, j, k) ==
  IF i > j THEN 0
  ELSE (DigitVal(s[i]) * Scale) \div Pow10(k) + FractionValue(s, i + 1, j, k + 1)

\* parseFloat: leading blanks, optional sign, the longest decimal literal
\* prefix; NaN when no digit is found
parseFloat(str) ==
  LET p0 == ScanWhile(str, 1, {" "})
      neg == p0 <= Len(str) /\ str[p0] = "-"
      p1 == IF p0 <= Len(str) /\ str[p0] \in {"-", "+"} THEN p0 + 1 ELSE p0
      p2 == ScanWhile(str, p1, Digits)
      hasDot == p2 <= Len(str) /\ str[p2] = "."
      p3 == IF hasDot THEN ScanWhile(str, p2 + 1, Digits) ELSE p2
      intDigits == p2 - p1
      fracDigits == IF hasDot THEN p3 - (p2 + 1) ELSE 0
      mag == DigitsValue(str, p1, p2 - 1) * Scale
             + (IF hasDot THEN FractionValue(str, p2 + 1, p3 - 1, 1) ELSE 0)
  IN IF intDigits = 0 /\ fracDigits = 0 THEN NaN
     ELSE IF neg THEN Num(-mag) ELSE Num(mag)

\* Number.isFinite
isFinite(n) == n.t = "num"

\* parseNumber: parseFloat, null when the result is not finite
parseNumber(str) ==
  LET n == parseFloat(str) IN IF isFinite(n) THEN n ELSE NullNum

\* the relational operators of JavaScript on numbers: false when a side is NaN
Lt(a, b) == a.t = "num" /\ b.t = "num" /\ a.v < b.v

Gt(a, b) == Lt(b, a)

Le(a, b) == a.t = "num" /\ b.t = "num" /\ a.v <= b.v

Ge(a, b) == Le(b, a)

\* --------------------------------------------------------- name matching
LowerOf ==
  [A |-> "a", B |-> "b", C |-> "c", D |-> "d", E |-> "e", M |-> "m",
   N |-> "n", O |-> "o", P |-> "p", S |-> "s", U |-> "u", W |-> "w",
   E_acute |-> "e_acute"]

\* U+0300..U+036F, the block removed by normalize
CombiningMarks == {"acute"}

\* canonical decomposition of one character
NFDChar(c) ==
  CASE c = "e_acute" -> <<"e", "acute">>
    [] c = "E_acute" -> <<"E", "acute">>
    [] OTHER -> <<c>>

RECURSIVE NFD(_)
NFD(s) == IF s = <<>> THEN <<>> ELSE NFDChar(Head(s)) \o NFD(Tail(s))

StripMarks(s) == SelectSeq(s, LAMBDA c : c \notin CombiningMarks)

toLowerCase(s) ==
  [i \in 1..Len(s) |-> IF s[i] \in DOMAIN LowerOf THEN LowerOf[s[i]] ELSE s[i]]

\* a helper that removes the marks before it decomposes
normalizeStripFirst(s) == toLowerCase(NFD(StripMarks(s)))

\* normalize: NFD, remove combining marks, lower-case
normalize(s) == toLowerCase(StripMarks(NFD(s)))

\* String.prototype.includes
includes(hay, needle) ==
  \E i \in 1..(Len(hay) - Len(needle) + 1) :
    SubSeq(hay, i, i + Len(needle) - 1) = needle

\* ------------------------------------------------------ regular expressions
WS == {" "}

At(s, i) == IF i >= 1 /\ i <= Len(s) THEN s[i] ELSE "EOF"

\* -?\d+(?:\.\d+)? matched at position i: the position after the match, or 0
NumEnd(s, i) ==
  LET p1 == IF At(s, i) = "-" THEN i + 1 ELSE i
      p2 == ScanWhile(s, p1, Digits)
  IN IF p2 = p1 THEN 0
     ELSE IF At(s, p2) = "." /\ At(s, p2 + 1) \in Digits
          THEN ScanWhile(s, p2 + 2, Digits)
          ELSE p2

\* the same pattern without its closing anchor: text may follow the pair
singleDecMatchOpen(raw) ==
  LET a0 == ScanWhile(raw, 1, WS)
      a1 == NumEnd(raw, a0)
      b  == IF a1 = 0 THEN 0 ELSE ScanWhile(raw, a1, WS)
      c0 == ScanWhile(raw, b + 1, WS)
      c1 == NumEnd(raw, c0)
  IN IF a1 # 0 /\ At(raw, b) = "," /\ c1 # 0
     THEN Some(<<SubSeq(raw, a0, a1 - 1), SubSeq(raw, c0, c1 - 1)>>)
     ELSE Null

\* /^\s*(-?\d+(?:\.\d+)?)\s*,\s*(-?\d+(?:\.\d+)?)\s*$/ : Null, or the two groups
singleDecMatch(raw) ==
  LET a0 == ScanWhile(raw, 1, WS)
      a1 == NumEnd(raw, a0)
      b  == IF a1 = 0 THEN 0 ELSE ScanWhile(raw, a1, WS)
      c0 == ScanWhile(raw, b + 1, WS)
      c1 == NumEnd(raw, c0)
      d  == IF c1 = 0 THEN 0 ELSE ScanWhile(raw, c1, WS)
  IN IF a1 # 0 /\ At(raw, b) = "," /\ c1 # 0 /\ d = Len(raw) + 1
     THEN Some(<<SubSeq(raw, a0, a1 - 1), SubSeq(raw, c0, c1 - 1)>>)
     ELSE Null

CompassLetters == {"N", "S", "E", "W", "n", "s", "e", "w"}

DmsChars == Digits \cup {"."}

\* the position after an optional character of set at position i
SkipOne(s, i, set) == IF At(s, i) \in set THEN i + 1 ELSE i

\* ([NSEW]) at p8 closes the group: the four captures and lastIndex
dmsClose(raw, i, e1, p2, g2, p5, g3, p8) ==
  IF At(raw, p8) \in CompassLetters
  THEN Some([m |-> <<SubSeq(raw, i, e1 - 1), SubSeq(raw, p2, g2 - 1),
                     SubSeq(raw, p5, g3 - 1), <<raw[p8]>> >>,
             lastIndex |-> p8 + 1])
  ELSE Null

\* ([\d\.]+)?\s*(?:dq|dprime)?\s* from p5, where g3 ends the third capture
dmsSeconds(raw, i, e1, p2, g2, p5, g3) ==
  dmsClose(raw, i, e1, p2, g2, p5, g3,
           ScanWhile(raw, SkipOne(raw, ScanWhile(raw, g3, WS), {"dq", "dprime"}), WS))

\* ([\d\.]+)?\s*(?:'|prime)?\s* from p2, where g2 ends the second capture
dmsMinutes(raw, i, e1, p2, g2) ==
  dmsSeconds(raw, i, e1, p2, g2,
             ScanWhile(raw, SkipOne(raw, ScanWhile(raw, g2, WS), {"'", "prime"}), WS),
             ScanWhile(raw, ScanWhile(raw, SkipOne(raw, ScanWhile(raw, g2, WS),
                                                   {"'", "prime"}), WS), DmsChars))

\* \s*deg\s* after the first capture, which ends before e1 (0: no number)
dmsDegrees(raw, i, e1) ==
  IF e1 = 0 THEN Null
  ELSE IF At(raw, ScanWhile(raw, e1, WS)) # "deg" THEN Null
  ELSE dmsMinutes(raw, i, e1, ScanWhile(raw, ScanWhile(raw, e1, WS) + 1, WS),
                  ScanWhile(raw, ScanWhile(raw, ScanWhile(raw, e1, WS) + 1, WS), DmsChars))

\* the DMS group pattern
\*   ([\-]?\d+(?:\.\d+)?)\s*deg\s*([\d\.]+)?\s*(?:'|prime)?\s*([\d\.]+)?\s*(?:dq|dprime)?\s*([NSEW])
\* matched at position i (flag i); an unmatched optional group is <<>>
dmsMatchAt(raw, i) == dmsDegrees(raw, i, NumEnd(raw, i))

RECURSIVE dmsExec(_, _)
\* pattern.exec(raw) with the g flag: the leftmost match at or after from
dmsExec(raw, from) ==
  IF from > Len(raw) THEN Null
  ELSE IF dmsMatchAt(raw, from) # Null THEN dmsMatchAt(raw, from)
  ELSE dmsExec(raw, from + 1)

RECURSIVE dmsMatches(_, _)
RECURSIVE dmsPush(_, _)
\* a loop that puts each match in front of the ones found before it
dmsPushFront(raw, r) ==
  IF r = Null THEN <<>> ELSE dmsMatches(raw, r[1].lastIndex) \o <<r[1].m>>

\* matches.push(m) and the rest of the while loop; r is what exec returned
dmsPush(raw, r) ==
  IF r = Null THEN <<>> ELSE <<r[1].m>> \o dmsMatches(raw, r[1].lastIndex)

\* the while loop collecting every match
dmsMatches(raw, from) == dmsPush(raw, dmsExec(raw, from))

\* ------------------------------------------------------ input validation
LatMin == Num(Deg(-90))

LatMax == Num(Deg(90))

LonMin == Num(Deg(-180))

LonMax == Num(Deg(180))

MsgCouldNotParse == "Could not parse coordinates."

MsgRange == "Latitude must be in [-90,90] and longitude in [-180,180]."

NoError == "null"

\* a validateLatLon that forgets the eastern bound of longitude
validateLatLonOpenEast(lat, lon) ==
  IF lat = NullNum \/ lon = NullNum THEN MsgCouldNotParse
  ELSE IF Lt(lat, LatMin) \/ Gt(lat, LatMax) \/ Lt(lon, LonMin)
       THEN MsgRange
       ELSE NoError

\* validateLatLon: an error message, or NoError
validateLatLon(lat, lon) ==
  IF lat = NullNum \/ lon = NullNum THEN MsgCouldNotParse
  ELSE IF Lt(lat, LatMin) \/ Gt(lat, LatMax) \/ Lt(lon, LonMin) \/ Gt(lon, LonMax)
       THEN MsgRange
       ELSE NoError

\* String.prototype.toUpperCase on a compass letter
toUpperDir(s) ==
  [i \in 1..Len(s) |->
     CASE s[i] = "n" -> "N" [] s[i] = "s" -> "S" [] s[i] = "e" -> "E"
       [] s[i] = "w" -> "W" [] OTHER -> s[i]]

\* match[k] ? parseFloat(match[k]) : 0
OrZero(str) == IF str # <<>> THEN parseFloat(str) ELSE Num(0)

Sixty == Num(60 * Scale)

Zero == Num(0)

\* |deg| + min/60 + sec/3600, in 1/Scale
DmsMagnitude(deg, min, sec) == Abs(deg.v) + min.v \div 60 + sec.v \div 3600

\* a conversion that negates for a negative token and again for S or W
dmsDecimalTwice(deg, min, sec, dir) ==
  IF ~(isFinite(deg) /\ isFinite(min) /\ isFinite(sec)) THEN NullNum
  ELSE IF Lt(min, Zero) \/ Ge(min, Sixty) \/ Lt(sec, Zero) \/ Ge(sec, Sixty)
       THEN NullNum
  ELSE IF Lt(deg, Zero) /\ dir \in {<<"S">>, <<"W">>} THEN Num(DmsMagnitude(deg, min, sec))
  ELSE IF Lt(deg, Zero) \/ dir \in {<<"S">>, <<"W">>} THEN Num(-DmsMagnitude(deg, min, sec))
  ELSE Num(DmsMagnitude(deg, min, sec))

\* dmsMatchToDecimal after its four const declarations
dmsDecimal(deg, min, sec, dir) ==
  IF ~(isFinite(deg) /\ isFinite(min) /\ isFinite(sec)) THEN NullNum
  ELSE IF Lt(min, Zero) \/ Ge(min, Sixty) \/ Lt(sec, Zero) \/ Ge(sec, Sixty)
       THEN NullNum
  ELSE IF Lt(deg, Zero) THEN Num(-DmsMagnitude(deg, min, sec))
  ELSE IF dir \in {<<"S">>, <<"W">>} THEN Num(-DmsMagnitude(deg, min, sec))
  ELSE Num(DmsMagnitude(deg, min, sec))

\* dmsMatchToDecimal: the decimal value of one DMS group, or null
dmsMatchToDecimal(match) ==
  dmsDecimal(parseFloat(match[1]), OrZero(match[2]), OrZero(match[3]),
             toUpperDir(match[4]))

\* ------------------------------------------------------------ the dataset
\* A region's geometry is a rectangle of longitude/latitude, in 1/Scale.
Noumea ==
  [name |-> <<"N", "o", "u", "m", "e_acute", "a">>,
   geom |-> [west |-> Deg(165), east |-> Deg(167), south |-> Deg(-23), north |-> Deg(-21)]]

\* overlaps Noumea on longitude 166..167, latitude -22..-21
Dumbea ==
  [name |-> <<"D", "u", "m", "b", "e_acute", "a">>,
   geom |-> [west |-> Deg(166), east |-> Deg(168), south |-> Deg(-22), north |-> Deg(-20)]]

Poum ==
  [name |-> <<"P", "o", "u", "m">>,
   geom |-> [west |-> Deg(164), east |-> Deg(165), south |-> Deg(-21), north |-> Deg(-20)]]

\* a GeoJSON document: "features" may be missing or not an array
FeatureCollection(fs) == [featuresIsArray |-> TRUE, features |-> fs]

BadDocument == [featuresIsArray |-> FALSE, features |-> <<>>]

FullData == FeatureCollection(<<Noumea, Dumbea, Poum>>)

PairData == FeatureCollection(<<Noumea, Dumbea>>)

EmptyData == FeatureCollection(<<>>)

\* a geometry on which the point-in-polygon test of leaflet-pip throws; it
\* contains no point
Malformed == [west |-> 1, east |-> 0, south |-> 1, north |-> 0]

Broken == [name |-> <<"B", "a", "d">>, geom |-> Malformed]

\* a dataset with a malformed feature between two good ones
FaultyData == FeatureCollection(<<Poum, Broken, Noumea>>)

\* what fetch(GEOJSON_URL) meets: net is whether a response arrives, json
\* whether its body parses, body the parsed document
Answer(net, json, body) == [net |-> net, json |-> json, body |-> body]

ServerAnswers ==
  { Answer(FALSE, FALSE, BadDocument), Answer(TRUE, TRUE, FullData),
    Answer(TRUE, TRUE, EmptyData) }

\* the embedded COMMUNES_DATA: Null when the global is not defined
Fallbacks == {Null, Some(FullData)}

\* --------------------------------------------------------------- Leaflet
\* Path.options defaults (tenths of a pixel, hundredths of opacity)
PathDefaults ==
  [color |-> "#3388ff", weight |-> 30, opacity |-> 100,
   fillColor |-> "inherit", fillOpacity |-> 20]

\* the style option given to L.geoJSON
communeStyle ==
  [color |-> "#228B22", weight |-> 16, fillColor |-> "#66BB66", fillOpacity |-> 35]

HoverStyle ==
  [fillColor |-> "#FFD54F", color |-> "#FB8C00", weight |-> 22, fillOpacity |-> 55]

SelectedStyle == [weight |-> 30, color |-> "#ff9800", fillOpacity |-> 50]

\* Path.setStyle: the given keys replace the options of the layer
setStyle(layer, style) ==
  [layer EXCEPT !.options =
     [k \in DOMAIN layer.options |->
        IF k \in DOMAIN style THEN style[k] ELSE layer.options[k]]]

\* GeoJSON.resetStyle: the layer's options return to the defaults it was
\* created with, then the style option of the GeoJSON layer is applied
resetStyle(layer) ==
  setStyle([layer EXCEPT !.options = PathDefaults], communeStyle)

\* an L.geoJSON that leaves the last feature of the document out
geoJSONPartial(fc) ==
  [i \in 1..(Len(fc.features) - 1) |->
     resetStyle([feature |-> fc.features[i], options |-> PathDefaults])]

\* L.geoJSON(fc, {style, onEachFeature}): one layer per feature, in order
geoJSON(fc) ==
  [i \in 1..Len(fc.features) |->
     resetStyle([feature |-> fc.features[i], options |-> PathDefaults])]

\* GeoJSON.setStyle: Path.setStyle on every layer
setStyleAll(layers, style) == [i \in 1..Len(layers) |-> setStyle(layers[i], style)]

\* the point-in-polygon test of leaflet-pip; p is <<x, y>> = <<lng, lat>>
pointInPolygon(p, geom) ==
  /\ geom.west <= p[1] /\ p[1] <= geom.east
  /\ geom.south <= p[2] /\ p[2] <= geom.north

RECURSIVE pipScan(_, _, _, _, _)
\* the eachLayer loop of leafletPip.pointInLayer; results holds layer indexes
pipScan(p, layers, first, i, results) ==
  IF i > Len(layers) THEN results
  ELSE IF first /\ results # <<>> THEN pipScan(p, layers, first, i + 1, results)
  ELSE IF pointInPolygon(p, layers[i].feature.geom)
       THEN pipScan(p, layers, first, i + 1, Append(results, i))
       ELSE pipScan(p, layers, first, i + 1, results)

\* a pointInLayer whose "first" answer is the last containing layer
pointInLayerLast(p, layers, first) ==
  LET all == pipScan(p, layers, FALSE, 1, <<>>)
  IN IF first /\ all # <<>> THEN <<all[Len(all)]>> ELSE all

\* leafletPip.pointInLayer(p, layer, first): the layers (by index) containing p
pointInLayer(p, layers, first) == pipScan(p, layers, first, 1, <<>>)

RECURSIVE pipScanThrows(_, _, _, _, _)
\* whether the same loop throws: it does when it comes to test a malformed
\* geometry, which it does not once "first" has its result
pipScanThrows(p, layers, first, i, results) ==
  IF i > Len(layers) THEN FALSE
  ELSE IF first /\ results # <<>> THEN FALSE
  ELSE IF layers[i].feature.geom = Malformed THEN TRUE
  ELSE pipScanThrows(p, layers, first, i + 1,
                     IF pointInPolygon(p, layers[i].feature.geom)
                     THEN Append(results, i) ELSE results)

\* whether leafletPip.pointInLayer(p, layer, first) throws; each caller wraps
\* the call in try / catch
pipThrows(p, layers, first) == pipScanThrows(p, layers, first, 1, <<>>)

\* ------------------------------------------------------------------ state
MODE_SINGLE_DEC == "singleDec"

MODE_DUAL_DEC == "dualDec"

MODE_DMS_BOXES == "dmsBoxes"

MODE_SINGLE_DMS == "singleDms"

MAP_CENTER == <<Dec(-21, -500), Dec(165, 500)>>

MAP_ZOOM == 8

VARIABLES
  server,           \* what fetch(GEOJSON_URL) will meet
  COMMUNES_DATA,    \* the embedded fallback dataset, Null when undefined
  loadPc,           \* position of the loadCommuneData() promise chain
  communeLayer,     \* Null, or Some(sequence of polygon layers)
  activeMarker,     \* Null, or Some([lat, lng, popup])
  locateMarkersOnMap, \* how many locate markers the map holds
  view,             \* the map view
  status,           \* text of the #status live region (announce)
  toasts,           \* the toasts shown by the latest handler
  currentMode,
  singleDecInput,   \* value of the single decimal text field
  dualDecInputs,    \* [lat, lon]: values of latDecInput and lonDecInput
  dmsBoxesInputs,   \* the six DMS fields
  singleDmsInput,
  points,
  pointIdCounter,
  selectionMode,
  selectedPointId,  \* 0 is null
  selectedPolygon,  \* 0 is null, otherwise the index of the layer
  addingPoint,
  modal,            \* Null, or Some(<<lat, lng>>) while the create dialog is open
  togglePoints,     \* the "show points" checkbox
  styleControls,    \* values of the border / fill colour and opacity inputs
  pointer,          \* index of the polygon under the pointer, 0 for none
  usingDMS,         \* the decimal / DMS toggle of the two-box variant
  latBox,           \* value of its latitude box
  lonBox,           \* value of its longitude box
  dmsInputs,        \* Null, or Some([lat, lon]): the values of the mini inputs
  lazy,             \* the globals of the lazy-loading variant and its pending loads
  tiles,            \* base tile layers: currentBase, darkMode, the layers on the map
  lastOp            \* history: the latest handler and what it was given

inputVars == <<currentMode, singleDecInput, dualDecInputs, dmsBoxesInputs, singleDmsInput>>

loadVars == <<server, COMMUNES_DATA, loadPc>>

envVars == <<togglePoints, styleControls, pointer>>

toggleVars == <<usingDMS, latBox, lonBox, dmsInputs, lazy>>

\* the variables the handlers below read and write, gathered in a record
appVars ==
  <<communeLayer, activeMarker, locateMarkersOnMap, view, status, toasts, points, pointIdCounter,
    selectionMode, selectedPointId, selectedPolygon, addingPoint, modal, lastOp>>

tileVars == <<tiles>>

vars == <<loadVars, inputVars, envVars, toggleVars, tileVars, appVars>>

NoDms == [latDeg |-> <<>>, latMin |-> <<>>, latSec |-> <<>>,
          lonDeg |-> <<>>, lonMin |-> <<>>, lonSec |-> <<>>]

NoDual == [lat |-> <<>>, lon |-> <<>>]

Text(msg, name) == [msg |-> msg, name |-> name]

Op(op, arg) == [op |-> op, arg |-> arg]

\* style input values equal to the style the layer is built with
ControlsAsBuilt ==
  [borderColor |-> "#228B22", borderOpacity |-> 100,
   fillColor |-> "#66BB66", fillOpacity |-> 35]

\* the values the style inputs can hold
StyleValues ==
  { ControlsAsBuilt,
    [borderColor |-> "#0000ff", borderOpacity |-> 50,
     fillColor |-> "#00ffff", fillOpacity |-> 20] }

InitCommon ==
  /\ loadPc = "fetching"
  /\ communeLayer = Null
  /\ activeMarker = Null
  /\ locateMarkersOnMap = 0
  /\ view = [lat |-> MAP_CENTER[1], lng |-> MAP_CENTER[2], zoom |-> MAP_ZOOM, fit |-> 0]
  /\ status = Text("", <<>>)
  /\ toasts = <<>>
  /\ currentMode = MODE_SINGLE_DEC
  /\ singleDecInput = <<>>
  /\ dualDecInputs = NoDual
  /\ dmsBoxesInputs = NoDms
  /\ singleDmsInput = <<>>
  /\ points = <<>>
  /\ pointIdCounter = 1
  /\ selectionMode = FALSE
  /\ selectedPointId = 0
  /\ selectedPolygon = 0
  /\ addingPoint = FALSE
  /\ modal = Null
  /\ togglePoints = TRUE
  /\ pointer = 0
  /\ usingDMS = FALSE
  /\ latBox = <<>>
  /\ lonBox = <<>>
  /\ dmsInputs = Null
  /\ lazy = [communeLayer |-> 0, created |-> 0, onMap |-> {}, fetches |-> 0,
             calls |-> <<>>, lazyLoading |-> FALSE, started |-> FALSE,
             highlightLayer |-> 0, a11yMsg |-> "", op |-> "init", located |-> Null]
  /\ tiles = [currentBase |-> "none", onMap |-> {}, darkMode |-> FALSE, radio |-> "osm",
              probe |-> "pending", waiting |-> <<"startup">>, op |-> "init"]
  /\ lastOp = Op("init", <<>>)

\* the state a handler starts from: no toast of its own shown yet
Cur ==
  [communeLayer |-> communeLayer, activeMarker |-> activeMarker,
   locateMarkersOnMap |-> locateMarkersOnMap, view |-> view,
   status |-> status, toasts |-> <<>>, points |-> points,
   pointIdCounter |-> pointIdCounter, selectionMode |-> selectionMode,
   selectedPointId |-> selectedPointId, selectedPolygon |-> selectedPolygon,
   addingPoint |-> addingPoint, modal |-> modal, lastOp |-> lastOp]

\* the state a handler leaves
Commit(st) ==
  /\ communeLayer' = st.communeLayer
  /\ activeMarker' = st.activeMarker
  /\ locateMarkersOnMap' = st.locateMarkersOnMap
  /\ view' = st.view
  /\ status' = st.status
  /\ toasts' = st.toasts
  /\ points' = st.points
  /\ pointIdCounter' = st.pointIdCounter
  /\ selectionMode' = st.selectionMode
  /\ selectedPointId' = st.selectedPointId
  /\ selectedPolygon' = st.selectedPolygon
  /\ addingPoint' = st.addingPoint
  /\ modal' = st.modal
  /\ lastOp' = st.lastOp

showToast(st, msg) == [st EXCEPT !.toasts = Append(@, msg)]

announce(st, text) == [st EXCEPT !.status = text]

Did(st, op, arg) == [st EXCEPT !.lastOp = Op(op, arg)]

\* ------------------------------------------------------- dataset loading
MsgFailedParse == "Failed to parse communes data."

MsgNoPolygons == "No commune polygons found - load the dataset to enable lookups."

\* the style object built by updateCommuneStyle from the style inputs
ControlStyle(c) ==
  [color |-> c.borderColor, opacity |-> c.borderOpacity, weight |-> 16,
   fillColor |-> c.fillColor, fillOpacity |-> c.fillOpacity]

\* updateCommuneStyle with the style inputs holding c
updateCommuneStyle(st, c) ==
  IF st.communeLayer = Null THEN st
  ELSE [st EXCEPT !.communeLayer = Some(setStyleAll(@[1], ControlStyle(c)))]

\* a .catch that never supplies the embedded dataset
CatchValueNone == Null

\* the value the .catch of loadCommuneData produces
CatchValue == IF COMMUNES_DATA # Null THEN COMMUNES_DATA ELSE Null

\* the .then callback of loadCommuneData(): install the layer, or report
loadThen(st, fc) ==
  IF fc = Null \/ ~fc[1].featuresIsArray
  THEN showToast(st, MsgFailedParse)
  ELSE LET s1 == IF Len(fc[1].features) = 0 THEN showToast(st, MsgNoPolygons) ELSE st
           s2 == [s1 EXCEPT !.communeLayer = Some(geoJSON(fc[1]))]
       IN updateCommuneStyle(s2, styleControls)

LoadFrame == UNCHANGED <<toggleVars, tileVars, server, COMMUNES_DATA, inputVars, envVars>>

\* fetch() settles: a response arrives and r.json() starts reading it
FetchResponds ==
  /\ loadPc = "fetching"
  /\ server.net
  /\ loadPc' = "parsing"
  /\ UNCHANGED <<toggleVars, tileVars, server, COMMUNES_DATA, inputVars, envVars, appVars>>

\* fetch() rejects: .catch supplies the fallback, then the .then callback runs
FetchFails ==
  /\ loadPc = "fetching"
  /\ ~server.net
  /\ loadPc' = "done"
  /\ Commit(Did(loadThen(Cur, CatchValue), "load", <<>>))
  /\ LoadFrame

\* r.json() settles: the document, or through .catch the fallback
JsonSettles ==
  /\ loadPc = "parsing"
  /\ loadPc' = "done"
  /\ LET fc == IF server.json THEN Some(server.body) ELSE CatchValue
     IN Commit(Did(loadThen(Cur, fc), "load", <<>>))
  /\ LoadFrame

\* ------------------------------------------------------------ resolution
MsgNotFound == "No commune found at this location."

MsgDataNotLoaded == "Data not loaded yet."

MsgNoMatch == "No match found."

NameOf(layers, i) == layers[i].feature.name

\* an identifyAt whose resolver runs on past the geometry it cannot test
popupTextAtUncaught(st, lat, lng) ==
  IF st.communeLayer # Null
  THEN LET hits == pointInLayer(<<lng, lat>>, st.communeLayer[1], TRUE)
       IN IF hits # <<>> THEN Text("Commune", NameOf(st.communeLayer[1], hits[1]))
          ELSE Text(MsgNotFound, <<>>)
  ELSE Text(MsgNotFound, <<>>)

\* identifyAt, the part that computes popupText: the text stays "not found"
\* when the layer is missing, nothing is hit, or pointInLayer throws
popupTextAt(st, lat, lng) ==
  IF st.communeLayer # Null /\ ~pipThrows(<<lng, lat>>, st.communeLayer[1], TRUE)
  THEN LET hits == pointInLayer(<<lng, lat>>, st.communeLayer[1], TRUE)
       IN IF hits # <<>> THEN Text("Commune", NameOf(st.communeLayer[1], hits[1]))
          ELSE Text(MsgNotFound, <<>>)
  ELSE Text(MsgNotFound, <<>>)

Max(a, b) == IF a >= b THEN a ELSE b

\* an identifyAt that leaves the previous marker on the map
identifyAtKeeping(st, lat, lng, dropMarker) ==
  LET popupText == popupTextAt(st, lat, lng)
      s1 == [st EXCEPT !.view = [lat |-> lat, lng |-> lng,
                                 zoom |-> Max(st.view.zoom, 11), fit |-> 0]]
      s2 == IF dropMarker
            THEN [s1 EXCEPT
                    !.locateMarkersOnMap = @ + 1,
                    !.activeMarker = Some([lat |-> lat, lng |-> lng, popup |-> popupText])]
            ELSE showToast(s1, popupText.msg)
  IN announce(s2, popupText)

\* identifyAt(lat, lng, dropMarker)
identifyAt(st, lat, lng, dropMarker) ==
  LET popupText == popupTextAt(st, lat, lng)
      s1 == [st EXCEPT !.view = [lat |-> lat, lng |-> lng,
                                 zoom |-> Max(st.view.zoom, 11), fit |-> 0]]
      s2 == IF dropMarker
            THEN [s1 EXCEPT
                    !.locateMarkersOnMap = (IF st.activeMarker # Null THEN @ - 1 ELSE @) + 1,
                    !.activeMarker = Some([lat |-> lat, lng |-> lng, popup |-> popupText])]
            ELSE showToast(s1, popupText.msg)
  IN announce(s2, popupText)

RECURSIVE firstMatch(_, _, _, _)
RECURSIVE anyLaterMatch(_, _, _, _)
\* an eachLayer loop that keeps overwriting matchLayer: the last match wins
anyLaterMatch(layers, q, i, matchLayer) ==
  IF i > Len(layers) THEN matchLayer
  ELSE IF includes(normalize(NameOf(layers, i)), q)
       THEN anyLaterMatch(layers, q, i + 1, i)
       ELSE anyLaterMatch(layers, q, i + 1, matchLayer)

\* the eachLayer loop of searchByName: index of matchLayer, 0 for null
firstMatch(layers, q, i, matchLayer) ==
  IF i > Len(layers) THEN matchLayer
  ELSE IF matchLayer # 0 THEN firstMatch(layers, q, i + 1, matchLayer)
  ELSE IF includes(normalize(NameOf(layers, i)), q)
       THEN firstMatch(layers, q, i + 1, i)
       ELSE firstMatch(layers, q, i + 1, matchLayer)

ZOOM_FIT == 10

\* a searchByName that announces the match without fitting the view to it
searchByNameStill(st, raw) ==
  IF st.communeLayer = Null THEN showToast(st, MsgDataNotLoaded)
  ELSE LET matchLayer == firstMatch(st.communeLayer[1], normalize(raw), 1, 0)
       IN IF matchLayer = 0
          THEN announce(showToast(st, MsgNoMatch), Text("No match found", <<>>))
          ELSE announce(st, Text("Found commune", NameOf(st.communeLayer[1], matchLayer)))

\* searchByName(raw)
searchByName(st, raw) ==
  IF st.communeLayer = Null THEN showToast(st, MsgDataNotLoaded)
  ELSE LET matchLayer == firstMatch(st.communeLayer[1], normalize(raw), 1, 0)
       IN IF matchLayer = 0
          THEN announce(showToast(st, MsgNoMatch), Text("No match found", <<>>))
          ELSE announce([st EXCEPT !.view.fit = matchLayer, !.view.zoom = ZOOM_FIT],
                        Text("Found commune", NameOf(st.communeLayer[1], matchLayer)))

\* --------------------------------------------------------- locate handlers
MsgInvalidNumbers == "Invalid numbers"

MsgBothRequired == "Please enter both latitude and longitude."

MsgDegreesRequired == "Degrees are required for both latitude and longitude."

MsgInvalidDms == "Invalid DMS values."

MsgMinSecRange == "Minutes and seconds must be in [0,60)."

MsgDmsUnparseable == "Could not parse DMS string."

MsgInvalidDmsString == "Invalid DMS values in input."

\* history of a locate handler: the pair handed to validateLatLon, and
\* whether identifyAt or searchByName was called
LocateArg(st, lat, lon, identified, named) ==
  [lat |-> lat, lon |-> lon, identified |-> identified, named |-> named]

Unreached(st) == LocateArg(st, NullNum, NullNum, FALSE, FALSE)

\* a swap test that asks the first number to be below and above the range
swapsAxesNever(a, b) == (Lt(a, LatMin) /\ Gt(a, LatMax)) /\ Ge(b, LatMin) /\ Le(b, LatMax)

\* the swap test of locateFromSingleDec: first number outside the latitude
\* range and second inside it
swapsAxes(a, b) == (Lt(a, LatMin) \/ Gt(a, LatMax)) /\ Ge(b, LatMin) /\ Le(b, LatMax)

\* a tail that removes the marker of the earlier lookup when it rejects
validateAndIdentifyClearing(st, op, lat, lon) ==
  LET err == validateLatLon(lat, lon)
  IN IF err # NoError
     THEN Did(showToast([st EXCEPT !.activeMarker = Null, !.locateMarkersOnMap = 0], err),
              op, LocateArg(st, lat, lon, FALSE, FALSE))
     ELSE Did(identifyAt(st, lat.v, lon.v, TRUE), op, LocateArg(st, lat, lon, TRUE, FALSE))

\* the tail shared by the four handlers: validate, then identifyAt
validateAndIdentify(st, op, lat, lon) ==
  LET err == validateLatLon(lat, lon)
  IN IF err # NoError
     THEN Did(showToast(st, err), op, LocateArg(st, lat, lon, FALSE, FALSE))
     ELSE Did(identifyAt(st, lat.v, lon.v, TRUE), op, LocateArg(st, lat, lon, TRUE, FALSE))

\* a handler that presents the text of the marker already on the map again
locateFromSingleDecCached(st) ==
  LET op == "locateFromSingleDec"
      cached(r) ==
        IF st.activeMarker # Null /\ r.activeMarker # Null
        THEN [r EXCEPT !.activeMarker[1].popup = st.activeMarker[1].popup]
        ELSE r
      pair(a, b) ==
        IF a = NullNum \/ b = NullNum
        THEN Did(showToast(st, MsgInvalidNumbers), op, Unreached(st))
        ELSE cached(validateAndIdentify(st, op, IF swapsAxes(a, b) THEN b ELSE a,
                                        IF swapsAxes(a, b) THEN a ELSE b))
      body(raw, m) ==
        IF raw = <<>> THEN Did(st, op, Unreached(st))
        ELSE IF m # Null THEN pair(parseNumber(m[1][1]), parseNumber(m[1][2]))
        ELSE Did(searchByName(st, raw), op, LocateArg(st, NullNum, NullNum, FALSE, TRUE))
  IN body(trim(singleDecInput), singleDecMatch(trim(singleDecInput)))

\* locateFromSingleDec
locateFromSingleDec(st) ==
  LET op == "locateFromSingleDec"
      \* the branch taken when the pattern matched, a and b parsed
      pair(a, b) ==
        IF a = NullNum \/ b = NullNum
        THEN Did(showToast(st, MsgInvalidNumbers), op, Unreached(st))
        ELSE validateAndIdentify(st, op, IF swapsAxes(a, b) THEN b ELSE a,
                                 IF swapsAxes(a, b) THEN a ELSE b)
      \* the body after const raw and const m
      body(raw, m) ==
        IF raw = <<>> THEN Did(st, op, Unreached(st))
        ELSE IF m # Null THEN pair(parseNumber(m[1][1]), parseNumber(m[1][2]))
        ELSE Did(searchByName(st, raw), op, LocateArg(st, NullNum, NullNum, FALSE, TRUE))
  IN body(trim(singleDecInput), singleDecMatch(trim(singleDecInput)))

\* locateFromDualDec
locateFromDualDec(st) ==
  LET latStr == trim(dualDecInputs.lat)
      lonStr == trim(dualDecInputs.lon)
      op == "locateFromDualDec"
  IN IF latStr = <<>> \/ lonStr = <<>>
     THEN Did(showToast(st, MsgBothRequired), op, Unreached(st))
     ELSE validateAndIdentify(st, op, parseNumber(latStr), parseNumber(lonStr))

\* a conversion that drops the sign of the degrees
boxesDecimalUnsigned(deg, min, sec) == Num(DmsMagnitude(deg, min, sec))

\* sign * (|deg| + min/60 + sec/3600) as computed by locateFromDmsBoxes
boxesDecimal(deg, min, sec) ==
  LET sign == IF Lt(deg, Zero) THEN -1 ELSE 1
  IN Num(sign * DmsMagnitude(deg, min, sec))

\* locateFromDmsBoxes
locateFromDmsBoxes(st) ==
  LET op == "locateFromDmsBoxes"
      \* the part after the six numbers are parsed
      parsed(latDeg, latMin, latSec, lonDeg, lonMin, lonSec) ==
        IF \E n \in {latDeg, latMin, latSec, lonDeg, lonMin, lonSec} : ~isFinite(n)
        THEN Did(showToast(st, MsgInvalidDms), op, Unreached(st))
        ELSE IF \/ Lt(latMin, Zero) \/ Ge(latMin, Sixty)
                \/ Lt(latSec, Zero) \/ Ge(latSec, Sixty)
                \/ Lt(lonMin, Zero) \/ Ge(lonMin, Sixty)
                \/ Lt(lonSec, Zero) \/ Ge(lonSec, Sixty)
        THEN Did(showToast(st, MsgMinSecRange), op, Unreached(st))
        ELSE validateAndIdentify(st, op, boxesDecimal(latDeg, latMin, latSec),
                                 boxesDecimal(lonDeg, lonMin, lonSec))
      \* the body after the six trimmed strings are read
      body(latDegStr, latMinStr, latSecStr, lonDegStr, lonMinStr, lonSecStr) ==
        IF latDegStr = <<>> \/ lonDegStr = <<>>
        THEN Did(showToast(st, MsgDegreesRequired), op, Unreached(st))
        ELSE parsed(parseFloat(latDegStr), OrZero(latMinStr), OrZero(latSecStr),
                    parseFloat(lonDegStr), OrZero(lonMinStr), OrZero(lonSecStr))
  IN body(trim(dmsBoxesInputs.latDeg), trim(dmsBoxesInputs.latMin),
          trim(dmsBoxesInputs.latSec), trim(dmsBoxesInputs.lonDeg),
          trim(dmsBoxesInputs.lonMin), trim(dmsBoxesInputs.lonSec))

\* locateFromSingleDms
locateFromSingleDms(st) ==
  LET op == "locateFromSingleDms"
      \* the part after the two calls of dmsMatchToDecimal
      decimals(latDecVal, lonDecVal) ==
        IF latDecVal = NullNum \/ lonDecVal = NullNum
        THEN Did(showToast(st, MsgInvalidDmsString), op,
                 LocateArg(st, latDecVal, lonDecVal, FALSE, FALSE))
        ELSE validateAndIdentify(st, op, latDecVal, lonDecVal)
      \* the body after const raw and the loop filling matches
      body(raw, matches) ==
        IF raw = <<>> THEN Did(st, op, Unreached(st))
        ELSE IF Len(matches) < 2
        THEN Did(showToast(st, MsgDmsUnparseable), op, Unreached(st))
        ELSE decimals(dmsMatchToDecimal(matches[1]), dmsMatchToDecimal(matches[2]))
  IN body(trim(singleDmsInput), dmsMatches(trim(singleDmsInput), 1))

\* handleLocate: dispatch on the current mode
handleLocate(st) ==
  CASE currentMode = MODE_SINGLE_DEC -> locateFromSingleDec(st)
    [] currentMode = MODE_DUAL_DEC -> locateFromDualDec(st)
    [] currentMode = MODE_DMS_BOXES -> locateFromDmsBoxes(st)
    [] currentMode = MODE_SINGLE_DMS -> locateFromSingleDms(st)
    [] OTHER -> locateFromSingleDec(st)

AppFrame == UNCHANGED <<toggleVars, tileVars, loadVars, inputVars, envVars>>

\* the Locate button, or Enter in a field of the current mode
Locate ==
  /\ Commit(handleLocate(Cur))
  /\ AppFrame

\* -------------------------------------------------------- input handling
InputFrame ==
  /\ Commit(Did(Cur, "input", <<>>))
  /\ UNCHANGED <<toggleVars, tileVars, loadVars, envVars>>

\* setMode(mode), from the four mode buttons
SetMode(mode) ==
  /\ currentMode # mode
  /\ currentMode' = mode
  /\ UNCHANGED <<singleDecInput, dualDecInputs, dmsBoxesInputs, singleDmsInput>>
  /\ InputFrame

\* the user edits the field(s) of the visible input group
TypeSingleDec(v) ==
  /\ currentMode = MODE_SINGLE_DEC
  /\ singleDecInput # v
  /\ singleDecInput' = v
  /\ UNCHANGED <<currentMode, dualDecInputs, dmsBoxesInputs, singleDmsInput>>
  /\ InputFrame

TypeDualDec(v) ==
  /\ currentMode = MODE_DUAL_DEC
  /\ dualDecInputs # v
  /\ dualDecInputs' = v
  /\ UNCHANGED <<currentMode, singleDecInput, dmsBoxesInputs, singleDmsInput>>
  /\ InputFrame

TypeDmsBoxes(v) ==
  /\ currentMode = MODE_DMS_BOXES
  /\ dmsBoxesInputs # v
  /\ dmsBoxesInputs' = v
  /\ UNCHANGED <<currentMode, singleDecInput, dualDecInputs, singleDmsInput>>
  /\ InputFrame

TypeSingleDms(v) ==
  /\ currentMode = MODE_SINGLE_DMS
  /\ singleDmsInput # v
  /\ singleDmsInput' = v
  /\ UNCHANGED <<currentMode, singleDecInput, dualDecInputs, dmsBoxesInputs>>
  /\ InputFrame

\* ---------------------------------------------------------------- markers
\* L.circleMarker([lat, lng], {color, fillColor, fillOpacity, radius: 6}):
\* the stroke weight is the Path default
circleMarker == [radius |-> 6, weight |-> PathDefaults.weight, iconSize |-> 0, onMap |-> FALSE]

\* L.marker([lat, lng], {icon: L.divIcon({iconSize: [size, size]})})
squareMarker(size) == [radius |-> 0, weight |-> 0, iconSize |-> size, onMap |-> FALSE]

newMarker(shape) == IF shape = "square" THEN squareMarker(12) ELSE circleMarker

\* points.findIndex((p) => p.id === id), 0 when absent
RECURSIVE findIndexFrom(_, _, _)
findIndexFrom(pts, id, i) ==
  IF i > Len(pts) THEN 0
  ELSE IF pts[i].id = id THEN i
  ELSE findIndexFrom(pts, id, i + 1)

findIndex(pts, id) == findIndexFrom(pts, id, 1)

\* ---------------------------------------------------------------- selection
\* a clearSelection that deselects the polygon and leaves the point selected
clearSelectionPolygonOnly(st) ==
  LET s1 == IF st.selectedPolygon # 0
            THEN [st EXCEPT
                    !.communeLayer =
                       IF @ # Null
                       THEN Some([@[1] EXCEPT ![st.selectedPolygon] = resetStyle(@)])
                       ELSE @,
                    !.selectedPolygon = 0]
            ELSE st
  IN announce([s1 EXCEPT !.selectionMode = FALSE], Text("Selection cleared", <<>>))

\* clearSelection()
clearSelection(st) ==
  LET s1 == IF st.selectedPolygon # 0
            THEN [st EXCEPT
                    !.communeLayer =
                       IF @ # Null
                       THEN Some([@[1] EXCEPT ![st.selectedPolygon] = resetStyle(@)])
                       ELSE @,
                    !.selectedPolygon = 0]
            ELSE st
      idx == findIndex(s1.points, s1.selectedPointId)
      s2 == IF s1.selectedPointId # 0
            THEN [s1 EXCEPT
                    !.points =
                       IF idx = 0 THEN @
                       ELSE IF @[idx].shape = "circle"
                       THEN [@ EXCEPT ![idx].marker.radius = 6, ![idx].marker.weight = 10]
                       ELSE IF @[idx].shape = "square"
                       THEN [@ EXCEPT ![idx].marker.iconSize = 12]
                       ELSE @,
                    !.selectedPointId = 0]
            ELSE s1
  IN announce([s2 EXCEPT !.selectionMode = FALSE], Text("Selection cleared", <<>>))

\* a selectPoint that does not clear the current selection first
selectPointKeeping(st, id) ==
  IF findIndex(st.points, id) = 0 THEN st
  ELSE LET idx == findIndex(st.points, id)
           s2 == [st EXCEPT !.selectionMode = TRUE, !.selectedPointId = id]
           s3 == IF s2.points[idx].shape = "circle"
                 THEN [s2 EXCEPT !.points[idx].marker.radius = 9,
                                 !.points[idx].marker.weight = 20]
                 ELSE IF s2.points[idx].shape = "square"
                 THEN [s2 EXCEPT !.points[idx].marker.iconSize = 16]
                 ELSE s2
       IN [s3 EXCEPT !.points[idx].marker.onMap = TRUE]

\* selectPoint(id)
selectPoint(st, id) ==
  IF findIndex(st.points, id) = 0 THEN st
  ELSE LET s1 == clearSelection(st)
           idx == findIndex(s1.points, id)
           s2 == [s1 EXCEPT !.selectionMode = TRUE, !.selectedPointId = id]
           s3 == IF s2.points[idx].shape = "circle"
                 THEN [s2 EXCEPT !.points[idx].marker.radius = 9,
                                 !.points[idx].marker.weight = 20]
                 ELSE IF s2.points[idx].shape = "square"
                 THEN [s2 EXCEPT !.points[idx].marker.iconSize = 16]
                 ELSE s2
       IN [s3 EXCEPT !.points[idx].marker.onMap = TRUE]

\* a selectCommuneLayer that does not clear the current selection first
selectCommuneLayerKeeping(st, layer) ==
  IF layer = 0 THEN st
  ELSE LET s2 == [st EXCEPT !.selectionMode = TRUE, !.selectedPolygon = layer]
       IN [s2 EXCEPT !.communeLayer[1][layer] = setStyle(@, SelectedStyle)]

\* selectCommuneLayer(layer); layer is an index into communeLayer, 0 for none
selectCommuneLayer(st, layer) ==
  IF layer = 0 THEN st
  ELSE LET s1 == clearSelection(st)
           s2 == [s1 EXCEPT !.selectionMode = TRUE, !.selectedPolygon = layer]
       IN [s2 EXCEPT !.communeLayer[1][layer] = setStyle(@, SelectedStyle)]

\* clearActiveMarker()
clearActiveMarker(st) ==
  IF st.activeMarker # Null
  THEN [st EXCEPT !.locateMarkersOnMap = @ - 1, !.activeMarker = Null]
  ELSE st

\* ------------------------------------------------------------------ points
MaxPoints == 1

\* ids are handed out up to MaxId
MaxId == 2

\* showPointModal(lat, lng, onSubmit), as called by createPointAt(lat, lng)
createPointAt(st, lat, lng) == [st EXCEPT !.modal = Some(<<lat, lng>>)]

\* a callback that hands the point to leaflet-pip latitude first
communeAtLatFirst(st, lat, lng) ==
  IF st.communeLayer # Null /\ ~pipThrows(<<lat, lng>>, st.communeLayer[1], TRUE)
  THEN LET hits == pointInLayer(<<lat, lng>>, st.communeLayer[1], TRUE)
       IN IF hits # <<>> THEN NameOf(st.communeLayer[1], hits[1]) ELSE <<>>
  ELSE <<>>

\* the region name createPointAt's callback stores for the point
communeAt(st, lat, lng) ==
  IF st.communeLayer # Null /\ ~pipThrows(<<lng, lat>>, st.communeLayer[1], TRUE)
  THEN LET hits == pointInLayer(<<lng, lat>>, st.communeLayer[1], TRUE)
       IN IF hits # <<>> THEN NameOf(st.communeLayer[1], hits[1]) ELSE <<>>
  ELSE <<>>

DefaultOpacity == Num(28800)

\* a callback that numbers the new point by its place in the collection
submitPointReusing(st, opacityText) ==
  LET lat == st.modal[1][1]
      lng == st.modal[1][2]
      id == Len(st.points) + 1
      visible == togglePoints
      pt == [id |-> id, lat |-> lat, lng |-> lng, shape |-> "circle",
             visible |-> visible,
             properties |-> [opacity |-> DefaultOpacity.v, commune |-> communeAt(st, lat, lng)],
             marker |-> [newMarker("circle") EXCEPT !.onMap = visible]]
  IN [st EXCEPT !.modal = Null, !.pointIdCounter = @ + 1, !.points = Append(@, pt)]

\* form.onsubmit of the create dialog, then the callback given by createPointAt
submitPoint(st, opacityText) ==
  LET lat == st.modal[1][1]
      lng == st.modal[1][2]
      entered == parseFloat(opacityText)
      opacity == IF ~isFinite(entered) \/ Lt(entered, Zero) \/ Gt(entered, Num(Scale))
                 THEN DefaultOpacity ELSE entered
      id == st.pointIdCounter
      visible == togglePoints
      pt == [id |-> id, lat |-> lat, lng |-> lng, shape |-> "circle",
             visible |-> visible,
             properties |-> [opacity |-> opacity.v, commune |-> communeAt(st, lat, lng)],
             marker |-> [newMarker("circle") EXCEPT !.onMap = visible]]
  IN [st EXCEPT !.modal = Null, !.pointIdCounter = id + 1, !.points = Append(@, pt)]

\* updatePoint(id, updates); updates.lat and updates.lng are numbers or NaN
updatePoint(st, id, updates) ==
  LET idx == findIndex(st.points, id)
  IN IF idx = 0 THEN st
     ELSE LET pt == st.points[idx]
              newLat == IF isFinite(updates.lat) THEN updates.lat.v ELSE pt.lat
              newLng == IF isFinite(updates.lng) THEN updates.lng.v ELSE pt.lng
              hits == IF st.communeLayer # Null
                         /\ ~pipThrows(<<newLng, newLat>>, st.communeLayer[1], TRUE)
                      THEN pointInLayer(<<newLng, newLat>>, st.communeLayer[1], TRUE)
                      ELSE <<>>
              newCommune == IF (newLat # pt.lat \/ newLng # pt.lng) /\ hits # <<>>
                            THEN NameOf(st.communeLayer[1], hits[1])
                            ELSE pt.properties.commune
              wasVisible == pt.visible
              newPt == [id |-> id, lat |-> newLat, lng |-> newLng,
                        shape |-> updates.shape, visible |-> wasVisible,
                        properties |-> [opacity |-> updates.opacity,
                                        commune |-> newCommune],
                        marker |-> [newMarker(updates.shape) EXCEPT !.onMap = wasVisible]]
          IN [st EXCEPT !.points[idx] = newPt]

RemoveAt(seq, i) == SubSeq(seq, 1, i - 1) \o SubSeq(seq, i + 1, Len(seq))

\* a deletePoint that leaves selectedPointId as it is
deletePointSelected(st, id) ==
  LET idx == findIndex(st.points, id)
  IN IF idx = 0 THEN st
     ELSE [st EXCEPT !.points = RemoveAt(@, idx)]

\* deletePoint(id)
deletePoint(st, id) ==
  LET idx == findIndex(st.points, id)
  IN IF idx = 0 THEN st
     ELSE [st EXCEPT !.points = RemoveAt(@, idx),
                     !.selectedPointId = IF @ = id THEN 0 ELSE @]

\* togglePointVisibility(id, visible)
togglePointVisibility(st, id, visible) ==
  LET idx == findIndex(st.points, id)
  IN IF idx = 0 THEN st
     ELSE [st EXCEPT !.points[idx].visible = visible,
                     !.points[idx].marker.onMap = visible]

\* toggleAllPoints(visible): togglePointVisibility for each point
toggleAllPoints(st, visible) ==
  [st EXCEPT !.points = [i \in 1..Len(@) |->
                           [@[i] EXCEPT !.visible = visible, !.marker.onMap = visible]]]

\* ------------------------------------------------------------ map events
\* a map click handler that identifies whatever the selection mode is
mapClickIdentifying(st, lat, lng) ==
  IF st.addingPoint
  THEN createPointAt([st EXCEPT !.addingPoint = FALSE], lat, lng)
  ELSE identifyAt(st, lat, lng, TRUE)

\* map.on('click'): add point, select polygon or identify
mapClick(st, lat, lng) ==
  IF st.addingPoint
  THEN createPointAt([st EXCEPT !.addingPoint = FALSE], lat, lng)
  ELSE IF st.selectionMode
  THEN IF st.communeLayer # Null /\ ~pipThrows(<<lng, lat>>, st.communeLayer[1], TRUE)
       THEN LET hits == pointInLayer(<<lng, lat>>, st.communeLayer[1], TRUE)
            IN IF hits # <<>> THEN selectCommuneLayer(st, hits[1])
               ELSE clearSelection(st)
       ELSE st
  ELSE identifyAt(st, lat, lng, TRUE)

\* layer.on('click') of a commune polygon
layerClick(st, layer, lat, lng) ==
  IF st.selectionMode THEN selectCommuneLayer(st, layer)
  ELSE identifyAt(st, lat, lng, TRUE)

\* marker.on('click') of a user point
markerClick(st, id) == IF st.selectionMode THEN selectPoint(st, id) ELSE st

\* history of a click: where it was, whether it also reached the map's handler,
\* and the options of the polygon it left selected as they were before it
ClickArg(after, lat, lng, bubbles) ==
  [lat |-> lat, lng |-> lng, bubbles |-> bubbles,
   prior |-> IF after.selectedPolygon # 0
             THEN Some(communeLayer[1][after.selectedPolygon].options)
             ELSE Null]

\* The create dialog covers the whole viewport, so pointer events reach the
\* map only while it is closed.
PointerFree == modal = Null

\* a click on the map outside every polygon and marker
MapClick(lat, lng) ==
  /\ PointerFree
  /\ communeLayer # Null => pointInLayer(<<lng, lat>>, communeLayer[1], FALSE) = <<>>
  /\ LET done(s1) == Commit(Did(s1, "mapClick", ClickArg(s1, lat, lng, TRUE)))
     IN done(mapClick(Cur, lat, lng))
  /\ AppFrame

\* A click on a polygon: its own handler runs, then the event reaches the
\* map's handler unless Leaflet stops it (bubbles).  Any polygon containing
\* the point can be the one on top, since hovering and selecting bring
\* polygons to the front.
LayerClick(layer, lat, lng, bubbles) ==
  /\ PointerFree
  /\ communeLayer # Null
  /\ layer \in 1..Len(communeLayer[1])
  /\ pointInPolygon(<<lng, lat>>, communeLayer[1][layer].feature.geom)
  /\ LET done(s2) == Commit(Did(s2, "layerClick", ClickArg(s2, lat, lng, bubbles)))
         bubble(s1) == done(IF bubbles THEN mapClick(s1, lat, lng) ELSE s1)
     IN bubble(layerClick(Cur, layer, lat, lng))
  /\ AppFrame

\* A click on a displayed point marker; a circle is a Path, whose events can
\* reach the map, a square is a Marker, whose events do not.
MarkerClick(id, bubbles) ==
  /\ PointerFree
  /\ findIndex(points, id) # 0
  /\ LET done(pt, s2) ==
           Commit(Did(s2, "markerClick", ClickArg(s2, pt.lat, pt.lng, bubbles)))
         bubble(pt, s1) ==
           /\ pt.marker.onMap
           /\ bubbles => pt.shape = "circle"
           /\ done(pt, IF bubbles THEN mapClick(s1, pt.lat, pt.lng) ELSE s1)
     IN bubble(points[findIndex(points, id)], markerClick(Cur, id))
  /\ AppFrame

\* mouseover of a polygon
Mouseover(layer) ==
  /\ PointerFree
  /\ communeLayer # Null
  /\ layer \in 1..Len(communeLayer[1])
  /\ pointer = 0
  /\ pointer' = layer
  /\ Commit(Did([Cur EXCEPT !.communeLayer[1][layer] = setStyle(@, HoverStyle)],
                "mouseover", layer))
  /\ UNCHANGED <<toggleVars, tileVars, loadVars, inputVars, togglePoints, styleControls>>

\* mouseout of a polygon
Mouseout(layer) ==
  /\ communeLayer # Null
  /\ pointer = layer
  /\ layer # 0
  /\ pointer' = 0
  /\ Commit(Did([Cur EXCEPT !.communeLayer[1][layer] = resetStyle(@)],
                "mouseout", layer))
  /\ UNCHANGED <<toggleVars, tileVars, loadVars, inputVars, togglePoints, styleControls>>

\* ------------------------------------------------------------- controls
\* an input event of a border / fill style control
StyleInput(c) ==
  /\ c # styleControls
  /\ styleControls' = c
  /\ Commit(Did(updateCommuneStyle(Cur, c), "updateCommuneStyle", <<>>))
  /\ UNCHANGED <<toggleVars, tileVars, loadVars, inputVars, togglePoints, pointer>>

\* selectModeBtn click
SelectModeBtn ==
  /\ LET s1 == [Cur EXCEPT !.selectionMode = ~@]
         s2 == IF ~s1.selectionMode THEN clearSelection(s1) ELSE s1
     IN Commit(Did(s2, "selectModeBtn", <<>>))
  /\ AppFrame

\* clearSelectionBtn click
ClearSelectionBtn ==
  /\ Commit(Did(clearSelection(Cur), "clearSelectionBtn", <<>>))
  /\ AppFrame

\* clearBtn click: clearInputs, clearActiveMarker, clearSelection
ClearBtn ==
  /\ singleDecInput' = <<>>
  /\ dualDecInputs' = NoDual
  /\ dmsBoxesInputs' = NoDms
  /\ singleDmsInput' = <<>>
  /\ Commit(Did(clearSelection(clearActiveMarker(Cur)), "clearBtn", <<>>))
  /\ UNCHANGED <<toggleVars, tileVars, loadVars, currentMode, envVars>>

MsgClickToAdd == "Click on the map to add a point"

\* addPointBtn click
AddPointBtn ==
  /\ LET s1 == [Cur EXCEPT !.addingPoint = ~@]
         s2 == IF s1.addingPoint THEN showToast(s1, MsgClickToAdd) ELSE s1
     IN Commit(Did(s2, "addPointBtn", <<>>))
  /\ AppFrame

MsgEnterCoordinates == "Enter coordinates first"

\* addPointCoordBtn click: handleLocate(), then createPointAt at the locate
\* marker when there is one; history keeps what the locate handler recorded
AddPointCoordBtn ==
  /\ PointerFree
  /\ LET create(s1) ==
           IF s1.activeMarker # Null
           THEN createPointAt(s1, s1.activeMarker[1].lat, s1.activeMarker[1].lng)
           ELSE showToast(s1, MsgEnterCoordinates)
         done(s1) == Commit(Did(create(s1), "addPointCoord", s1.lastOp.arg))
     IN done(handleLocate(Cur))
  /\ AppFrame

\* Create in the create dialog, while the collection holds fewer than
\* maxPoints points and ids up to maxId are left
CreateWithin(maxPoints, maxId, opacityText) ==
  /\ modal # Null
  /\ Len(points) < maxPoints
  /\ pointIdCounter <= maxId
  /\ Commit(Did(submitPoint(Cur, opacityText), "submitPoint",
                <<modal[1][1], modal[1][2], opacityText>>))
  /\ AppFrame

\* Create in the create dialog
ModalSubmit(opacityText) == CreateWithin(MaxPoints, MaxId, opacityText)

\* a Cancel that uses up an id
ModalCancelCounting ==
  /\ modal # Null
  /\ Commit(Did([Cur EXCEPT !.modal = Null, !.pointIdCounter = @ + 1], "cancelPoint", <<>>))
  /\ AppFrame

\* Cancel in the create dialog
ModalCancel ==
  /\ modal # Null
  /\ Commit(Did([Cur EXCEPT !.modal = Null], "cancelPoint", <<>>))
  /\ AppFrame

\* click on a point's entry in the points list
ListSelect(id) ==
  /\ findIndex(points, id) # 0
  /\ Commit(Did(selectPoint(Cur, id), "selectPoint",
                [id |-> id, polygon |-> selectedPolygon]))
  /\ AppFrame

\* Save in a point's edit form
SavePoint(id, updates) ==
  /\ findIndex(points, id) # 0
  /\ Commit(Did(updatePoint(Cur, id, updates), "updatePoint",
                [id |-> id, updates |-> updates]))
  /\ AppFrame

\* the delete button of a point's entry
DeletePointBtn(id) ==
  /\ findIndex(points, id) # 0
  /\ Commit(Did(deletePoint(Cur, id), "deletePoint", id))
  /\ AppFrame

\* the "show points" checkbox is ticked or unticked
TogglePointsChange ==
  /\ togglePoints' = ~togglePoints
  /\ Commit(Did(toggleAllPoints(Cur, ~togglePoints), "toggleAllPoints", ~togglePoints))
  /\ UNCHANGED <<toggleVars, tileVars, loadVars, inputVars, styleControls, pointer>>

\* the visibility checkbox of a point's entry is ticked or unticked
VisCheckbox(id) ==
  /\ findIndex(points, id) # 0
  /\ LET checked == ~points[findIndex(points, id)].visible
     IN Commit(Did(togglePointVisibility(Cur, id, checked), "togglePointVisibility",
                   [id |-> id, visible |-> checked]))
  /\ AppFrame

\* ------------------------------------------------------ base tile layers
\* In the record tiles, currentBase is "none" while null and otherwise the key
\* of a layer of baseLayers, onMap holds the base layers added to the map,
\* radio is the checked basemap radio, probe tells whether the promise of
\* createTileLayer() has settled, and waiting lists, in the order they were
\* registered, the callbacks and continuations that wait for it.

\* continuations waiting for the probe per run of the model
MaxWaiting == 3

\* map.removeLayer(currentBase), when there is one
removeCurrentBase(t) ==
  IF t.currentBase # "none" THEN [t EXCEPT !.onMap = @ \ {t.currentBase}] ELSE t

\* currentBase = layer; layer.addTo(map)
installBase(t, layer) == [t EXCEPT !.currentBase = layer, !.onMap = @ \cup {layer}]

\* what follows `await baseLayers[val]`: at once when the promise has
\* settled, after the probe otherwise
awaitBase(t, val, who) ==
  IF val = "osm" /\ t.probe = "pending"
  THEN [t EXCEPT !.waiting = Append(@, who)]
  ELSE installBase(t, val)

\* basemapOptions change handler
basemapChange(t, val) ==
  IF t.darkMode THEN t
  ELSE awaitBase(removeCurrentBase(t), val, "basemap")

\* darkModeToggle change handler, after darkMode = darkModeToggle.checked
darkModeChange(t) ==
  IF t.darkMode
  THEN installBase(removeCurrentBase(t), "dark")
  ELSE awaitBase(removeCurrentBase(t), t.radio, "darkMode")

RECURSIVE runWaiting(_, _)
\* the callbacks waiting for the probe, run in the order of registration:
\* baseLayers.osm.then(...) and the rest of the two handlers all do
\* currentBase = layer; layer.addTo(map)
runWaiting(t, waiting) ==
  IF waiting = <<>> THEN t
  ELSE runWaiting(installBase(t, "osm"), Tail(waiting))

TileFrame == UNCHANGED <<loadVars, inputVars, envVars, toggleVars, appVars>>

\* the promise of createTileLayer() settles: with the OSM layer or, when the
\* tile server is out of reach or 5 s have passed, the offline layer
ProbeResolves ==
  /\ tiles.probe = "pending"
  /\ tiles' = [runWaiting([tiles EXCEPT !.probe = "resolved", !.waiting = <<>>],
                          tiles.waiting)
                 EXCEPT !.op = "probe"]
  /\ TileFrame

\* another basemap radio is checked; the radios are disabled in dark mode
BasemapChange(val) ==
  /\ ~tiles.darkMode
  /\ val # tiles.radio
  /\ tiles' = [basemapChange([tiles EXCEPT !.radio = val], val) EXCEPT !.op = "basemap"]
  /\ Len(tiles'.waiting) <= MaxWaiting
  /\ TileFrame

\* the dark mode checkbox is ticked or unticked
DarkModeToggle ==
  /\ tiles' = [darkModeChange([tiles EXCEPT !.darkMode = ~@]) EXCEPT !.op = "darkMode"]
  /\ Len(tiles'.waiting) <= MaxWaiting
  /\ TileFrame

\* ------------------------------------------------ decimal / DMS toggle
\* The two-box variant of the page (latBox, lonBox and the toggleFormat
\* button).  Its values have at most three fractional digits.
DigitTok(d) ==
  CASE d = 0 -> "0" [] d = 1 -> "1" [] d = 2 -> "2" [] d = 3 -> "3" [] d = 4 -> "4"
    [] d = 5 -> "5" [] d = 6 -> "6" [] d = 7 -> "7" [] d = 8 -> "8" [] d = 9 -> "9"

RECURSIVE IntText(_)
\* the decimal digits of a natural number
IntText(n) == IF n < 10 THEN <<DigitTok(n)>> ELSE IntText(n \div 10) \o <<DigitTok(n % 10)>>

RECURSIVE Padded(_, _)
\* the last k decimal digits of n, zeros included
Padded(n, k) == IF k = 0 THEN <<>> ELSE Padded(n \div 10, k - 1) \o <<DigitTok(n % 10)>>

RECURSIVE StripZeros(_)
StripZeros(ds) ==
  IF ds # <<>> /\ ds[Len(ds)] = "0" THEN StripZeros(SubSeq(ds, 1, Len(ds) - 1)) ELSE ds

TenTo(k) == IF k = 2 THEN 100 ELSE 1000000

\* r / Scale rounded to k decimals (k is 2 or 6), as a count of 10^-k
FracCount(r, k) ==
  IF k = 2 THEN (200 * r + Scale) \div (2 * Scale) ELSE (500 * r + 9) \div 18

\* the digits of toFixed for the magnitude a
FixedDigits(a, k, f) ==
  IntText(a \div Scale + (IF f = TenTo(k) THEN 1 ELSE 0))
    \o <<".">> \o Padded(IF f = TenTo(k) THEN 0 ELSE f, k)

\* Number.prototype.toFixed(k) of the finite number v
toFixed(v, k) ==
  (IF v < 0 THEN <<"-">> ELSE <<>>) \o FixedDigits(Abs(v), k, FracCount(Abs(v) % Scale, k))

\* a string value
Str(text) == [t |-> "str", v |-> text]

\* the fractional digits of Number::toString, from a count of thousandths
FracText(th) ==
  IF StripZeros(Padded(th, 3)) = <<>> THEN <<>> ELSE <<".">> \o StripZeros(Padded(th, 3))

\* Number::toString as parseFloat and input.value apply it: a string as it is, a number in decimal notation (zero, of
\* either sign, is "0")
NumberToString(x) ==
  IF x.t = "str" THEN x.v
  ELSE IF x.t # "num" THEN <<"N", "a", "N">>
  ELSE (IF x.v < 0 THEN <<"-">> ELSE <<>>)
         \o IntText(Abs(x.v) \div Scale) \o FracText((Abs(x.v) % Scale) \div 36)

\* Math.floor of a value that is not negative
Floor(a) == (a \div Scale) * Scale

\* dec2dms after abs, d and m are computed: [d * sign, m, s]
dec2dmsParts(sign, abs, d, m) ==
  <<Num(d * sign), Num(m), Str(toFixed(((abs - d) * 60 - m) * 60, 2))>>

\* dec2dms(dec): degrees carrying the sign, minutes, and seconds as text
dec2dms(dec) ==
  dec2dmsParts(IF dec.v < 0 THEN -1 ELSE 1, Abs(dec.v), Floor(Abs(dec.v)),
               Floor((Abs(dec.v) - Floor(Abs(dec.v))) * 60))

\* Math.sign(deg) || 1
signOrOne(deg) == IF deg.t = "num" /\ deg.v < 0 THEN -1 ELSE 1

\* dms2dec after the destructuring of parts.map(parseFloat)
dms2decOf(deg, min, sec) ==
  IF ~(isFinite(deg) /\ isFinite(min) /\ isFinite(sec)) THEN NaN
  ELSE Num(signOrOne(deg) * (Abs(deg.v) + min.v \div 60 + sec.v \div 3600))

\* dms2dec(parts): each part goes through parseFloat, which reads its string
dms2dec(parts) ==
  dms2decOf(parseFloat(NumberToString(parts[1])), parseFloat(NumberToString(parts[2])),
            parseFloat(NumberToString(parts[3])))

\* parseFloat(box.value) || 0
FloatOrZero(text) == IF isFinite(parseFloat(text)) THEN parseFloat(text) ELSE Zero

\* createDmsInputs(axis, values): input.value = val for each of the three
createDmsInputs(values) == [i \in 1..3 |-> NumberToString(values[i])]

\* the three numbers read back from the mini inputs of one axis
readDmsInputs(inputs) == [i \in 1..3 |-> FloatOrZero(inputs[i])]

ToggleFrame == UNCHANGED <<loadVars, inputVars, envVars, tileVars, lazy>>

\* the user edits the latitude or the longitude box while it is shown
TypeLatBox(v) ==
  /\ ~usingDMS
  /\ latBox # v
  /\ latBox' = v
  /\ UNCHANGED <<usingDMS, lonBox, dmsInputs>>
  /\ Commit(Did(Cur, "input", <<>>))
  /\ ToggleFrame

TypeLonBox(v) ==
  /\ ~usingDMS
  /\ lonBox # v
  /\ lonBox' = v
  /\ UNCHANGED <<usingDMS, latBox, dmsInputs>>
  /\ Commit(Did(Cur, "input", <<>>))
  /\ ToggleFrame

\* the user edits the three mini inputs of one axis while they are shown
TypeDmsInputs(axis, v) ==
  /\ usingDMS
  /\ dmsInputs # Null
  /\ dmsInputs[1][axis] # v
  /\ dmsInputs' = Some([dmsInputs[1] EXCEPT ![axis] = v])
  /\ UNCHANGED <<usingDMS, latBox, lonBox>>
  /\ Commit(Did(Cur, "input", <<>>))
  /\ ToggleFrame

\* toggleFormat click: history keeps the two boxes as they were
ToggleFormat ==
  /\ usingDMS' = ~usingDMS
  /\ IF ~usingDMS
     THEN /\ dmsInputs' = Some([lon |-> createDmsInputs(dec2dms(FloatOrZero(lonBox))),
                                lat |-> createDmsInputs(dec2dms(FloatOrZero(latBox)))])
          /\ UNCHANGED <<latBox, lonBox>>
     ELSE /\ lonBox' = toFixed(dms2dec(readDmsInputs(dmsInputs[1].lon)).v, 6)
          /\ latBox' = toFixed(dms2dec(readDmsInputs(dmsInputs[1].lat)).v, 6)
          /\ dmsInputs' = Null
  /\ Commit(Did(Cur, "toggleFormat", [lat |-> latBox, lon |-> lonBox]))
  /\ ToggleFrame

\* ------------------------------------------------ lazy-loading variant
\* The two-box variant loads the polygons through loadCommuneLayer().  In the
\* record lazy, communeLayer and highlightLayer are 0 while undefined, layers
\* are numbered in the order of their creation, onMap holds the commune
\* layers added to the map, fetches counts the requests for the local copy,
\* and calls holds the loadCommuneLayer() invocations waiting at an await.
MsgOutOfRange == "Coordinates out of range"

MsgNoCommune == "No commune found at this location"

MsgUnableToLoad == "Unable to load commune boundaries"

MsgLazyEnabled == "Lazy loading enabled."

MsgLazyDisabled == "Lazy loading disabled."

\* pending invocations per run of the model
MaxCalls == 2

\* requests for the local copy per run of the model
MaxFetches == 3

setA11yMsg(z, msg) == [z EXCEPT !.a11yMsg = msg]

\* communeLayer = L.geoJSON(data, {onEachFeature, style}).addTo(map)
addCommuneLayer(z) ==
  [z EXCEPT !.created = @ + 1, !.communeLayer = z.created + 1,
            !.onMap = @ \cup {z.created + 1}]

\* locatePoint(lat, lon) after its await
locateResumes(z, lat, lon) ==
  IF z.communeLayer = 0 THEN z
  ELSE LET highlight(matches) ==
             IF matches # <<>> THEN [z EXCEPT !.highlightLayer = matches[1]]
             ELSE setA11yMsg(z, MsgNoCommune)
       IN highlight(pointInLayer(<<lon, lat>>, geoJSON(FullData), TRUE))

\* what follows the await of an invocation: the rest of locatePoint, or
\* nothing for a bare loadCommuneLayer()
resumeCaller(z, call) ==
  IF call.origin = "locatePoint" THEN locateResumes(z, call.lat, call.lon) ELSE z

\* the caller of an invocation whose promise rejects: the .catch of the
\* startup and lazy-toggle loads; locatePoint has none
rejectCaller(z, call) ==
  IF call.origin = "load" THEN setA11yMsg(z, MsgUnableToLoad) ELSE z

\* loadCommuneLayer() up to its first await
loadCommuneLayer(z, call) ==
  IF z.communeLayer # 0 THEN resumeCaller(z, call)
  ELSE IF COMMUNES_DATA # Null THEN resumeCaller(addCommuneLayer(z), call)
  ELSE [z EXCEPT !.fetches = @ + 1,
                 !.calls = Append(@, [call EXCEPT !.pc = "local"])]

Call(origin, lat, lon) == [origin |-> origin, lat |-> lat, lon |-> lon, pc |-> "start"]

\* performSearch() with the decimal boxes holding the texts given
performSearch(z, latText, lonText) ==
  LET lon == IF usingDMS THEN dms2dec(readDmsInputs(dmsInputs[1].lon)) ELSE parseFloat(lonText)
      lat == IF usingDMS THEN dms2dec(readDmsInputs(dmsInputs[1].lat)) ELSE parseFloat(latText)
  IN IF isFinite(lat) /\ isFinite(lon) /\ Abs(lat.v) <= Deg(90) /\ Abs(lon.v) <= Deg(180)
     THEN loadCommuneLayer([setA11yMsg(z, "nbsp") EXCEPT !.located = Some(<<lat.v, lon.v>>)],
                           Call("locatePoint", lat.v, lon.v))
     ELSE setA11yMsg(z, MsgOutOfRange)

\* the lat and lon of the page's hash, when it has them
HashLat == <<"-", "2", "1", ".", "5">>

HashLon == <<"1", "6", "5", ".", "5">>

WithinLazyBounds(z) == Len(z.calls) <= MaxCalls /\ z.fetches <= MaxFetches

LazyFrame == UNCHANGED <<loadVars, inputVars, envVars, tileVars, appVars, usingDMS, dmsInputs>>

\* the DOMContentLoaded handler: the deep link's search, then the startup load
DOMContentLoaded(deepLink) ==
  /\ ~lazy.started
  /\ LET started == [lazy EXCEPT !.started = TRUE]
         searched == IF deepLink THEN performSearch(started, HashLat, HashLon) ELSE started
         loaded == IF ~searched.lazyLoading
                   THEN loadCommuneLayer(searched, Call("load", 0, 0))
                   ELSE searched
     IN lazy' = [loaded EXCEPT !.op = "start"]
  /\ latBox' = (IF deepLink THEN HashLat ELSE latBox)
  /\ lonBox' = (IF deepLink THEN HashLon ELSE lonBox)
  /\ LazyFrame

\* searchButton click, or Enter
SearchButton ==
  /\ lazy.started
  /\ lazy' = [performSearch(lazy, latBox, lonBox) EXCEPT !.op = "search"]
  /\ WithinLazyBounds(lazy')
  /\ UNCHANGED <<latBox, lonBox>>
  /\ LazyFrame

\* lazyToggle click
LazyToggleBtn ==
  /\ lazy.started
  /\ lazy' = IF ~lazy.lazyLoading
             THEN setA11yMsg([lazy EXCEPT !.lazyLoading = TRUE, !.op = "toggle",
                                          !.onMap = @ \ {lazy.communeLayer}],
                             MsgLazyEnabled)
             ELSE IF lazy.communeLayer # 0
             THEN setA11yMsg([lazy EXCEPT !.lazyLoading = FALSE, !.op = "toggle",
                                          !.onMap = @ \cup {lazy.communeLayer}],
                             MsgLazyDisabled)
             ELSE loadCommuneLayer(setA11yMsg([lazy EXCEPT !.lazyLoading = FALSE,
                                                           !.op = "toggle"],
                                              MsgLazyDisabled),
                                   Call("load", 0, 0))
  /\ WithinLazyBounds(lazy')
  /\ UNCHANGED <<latBox, lonBox>>
  /\ LazyFrame

\* the invocation at place i moves on to the await named
Awaiting(i, pc) == [lazy EXCEPT !.calls[i].pc = pc, !.op = "settle"]

\* the invocation at place i ends
Ended(i) == [lazy EXCEPT !.calls = RemoveAt(@, i), !.op = "settle"]

\* the invocation at place i creates the layer and returns it
Returned(i) == resumeCaller(addCommuneLayer(Ended(i)), lazy.calls[i])

\* the invocation at place i throws
Thrown(i) == rejectCaller(Ended(i), lazy.calls[i])

\* an await of the invocation at place i is over; ok tells how it went
LoadSettles(i, ok) ==
  /\ i \in 1..Len(lazy.calls)
  /\ lazy' = CASE lazy.calls[i].pc = "local" ->
                     (IF ok THEN Awaiting(i, "localJson") ELSE Awaiting(i, "remote"))
                [] lazy.calls[i].pc = "localJson" ->
                     (IF ok THEN Returned(i) ELSE Awaiting(i, "remote"))
                [] lazy.calls[i].pc = "remote" ->
                     (IF ok THEN Awaiting(i, "remoteJson") ELSE Thrown(i))
                [] lazy.calls[i].pc = "remoteJson" ->
                     (IF ok THEN Returned(i) ELSE Thrown(i))
  /\ UNCHANGED <<latBox, lonBox>>
  /\ LazyFrame

\* ---------------------------------------------------------- entered text
\* texts typed in the single decimal field where all four modes are explored
SingleDecFew ==
  { <<"-", "9", "0", ",", "1", "8", "0">>,
    <<"-", "2", "0", ".", "5", ",", "1", "8", "1">>,
    <<"-", "2", "0", ".", "5", ",", "1", "6", "4", ".", "5">>,
    <<"n", "o", "u", "m">> }

\* texts typed in the single decimal field: pairs in both orders, pairs out of
\* range, and name queries
SingleDecSamples ==
  { <<"-", "2", "1", ".", "5", ",", "1", "6", "5", ".", "5">>,
    <<"-", "2", "1", ".", "5", ",", " ", "1", "6", "6", ".", "5">>,
    <<"1", "6", "5", ".", "5", ",", "-", "2", "1", ".", "5">>,
    <<"9", "1", ",", "0">>,
    <<"9", "1", ",", "9", "5">>,
    <<"2", "0", "0", ",", "4", "5">>,
    <<"-", "9", "0", ",", "1", "8", "0">>,
    <<"9", "0", ".", "0", "0", "1", ",", "0">>,
    <<"-", "2", "0", ".", "5", ",", "1", "8", "1">>,
    <<"-", "2", "0", ".", "5", ",", "1", "6", "4", ".", "5">>,
    <<"1", ",", "2", ",", "3">>,
    <<"1", ".", ",", "2">>,
    <<".", "5", ",", "2">>,
    <<" ">>,
    <<"n", "o", "u", "m">>,
    <<"u", "m">>,
    <<"E", "A">>,
    <<"E_acute">>,
    <<"m", "b">>,
    <<"P", "o", "u", "m">>,
    <<"x", "y", "z">>,
    <<"acute">> }

\* values of the latitude and longitude fields of dual decimal mode
DualDecSamples ==
  { [lat |-> <<"-", "9", "0">>, lon |-> <<"1", "8", "0">>],
    [lat |-> <<"9", "1">>, lon |-> <<"0">>] }

\* values of the six fields of DMS boxes mode
DmsBoxesSamples ==
  { [latDeg |-> <<"-", "9", "0">>, latMin |-> <<>>, latSec |-> <<>>,
     lonDeg |-> <<"1", "8", "0">>, lonMin |-> <<>>, lonSec |-> <<>>],
    [latDeg |-> <<"9", "0">>, latMin |-> <<"0">>, latSec |-> <<"0", ".", "1">>,
     lonDeg |-> <<"0">>, lonMin |-> <<"0">>, lonSec |-> <<"0">>] }

\* the six fields of DMS boxes mode, latitude first
Boxes(latDeg, latMin, latSec, lonDeg, lonMin, lonSec) ==
  [latDeg |-> latDeg, latMin |-> latMin, latSec |-> latSec,
   lonDeg |-> lonDeg, lonMin |-> lonMin, lonSec |-> lonSec]

\* values of the six fields: blank and present minutes and seconds, both
\* signs of the degrees, values at and beyond the ends of [0,60)
DmsBoxesMany ==
  { Boxes(<<"-", "9", "0">>, <<>>, <<>>, <<"1", "8", "0">>, <<>>, <<>>),
    Boxes(<<"9", "0">>, <<"0">>, <<"0", ".", "1">>, <<"0">>, <<"0">>, <<"0">>),
    Boxes(<<>>, <<"3", "0">>, <<>>, <<"1", "6", "5">>, <<>>, <<>>),
    Boxes(<<"-", "2", "1">>, <<>>, <<>>, <<" ">>, <<"3", "0">>, <<>>),
    Boxes(<<"-", "2", "1">>, <<"3", "0">>, <<>>, <<"1", "6", "5">>, <<"3", "0">>, <<"3", "6">>),
    Boxes(<<"2", "1">>, <<"3", "0">>, <<"0">>, <<"-", "1", "6", "5">>, <<"3", "0">>, <<"0">>),
    Boxes(<<"-", "0">>, <<"3", "0">>, <<>>, <<"1", "6", "5">>, <<>>, <<>>),
    Boxes(<<"-", "2", "1">>, <<"6", "0">>, <<>>, <<"1", "6", "5">>, <<>>, <<>>),
    Boxes(<<"-", "2", "1">>, <<"5", "9", ".", "9", "9">>, <<"5", "9", ".", "9">>,
          <<"1", "6", "5">>, <<"0">>, <<"6", "0">>),
    Boxes(<<"-", "2", "1">>, <<"5", "9", ".", "9", "9">>, <<"5", "9", ".", "9">>,
          <<"1", "6", "5">>, <<"0">>, <<"0">>),
    Boxes(<<"-", "2", "1">>, <<"-", "1">>, <<>>, <<"1", "6", "5">>, <<>>, <<>>),
    Boxes(<<"-", "2", "1">>, <<"x">>, <<>>, <<"1", "6", "5">>, <<"6", "1">>, <<>>),
    Boxes(<<"-", "2", "0">>, <<"4", "4">>, <<"1", "9", ".", "7">>,
          <<"1", "6", "4">>, <<"4", "7">>, <<"4", "1", ".", "6">>) }

\* texts typed in the single DMS string field
SingleDmsSamples ==
  { <<"9", "0", "deg", "S", " ", "1", "8", "0", "deg", "E">>,
    <<"9", "1", "deg", "N", " ", "0", "deg", "E">> }

\* the text  20 deg 44 ' 19.7 " S  164 deg 47 ' 41.6 " E
DmsExample ==
  <<"2", "0", "deg", "4", "4", "'", "1", "9", ".", "7", "dq", "S", " ",
    "1", "6", "4", "deg", "4", "7", "'", "4", "1", ".", "6", "dq", "E">>

\* texts typed in the single DMS string field: groups in both orders, fewer
\* and more than two groups, signed tokens with every kind of letter
SingleDmsMany ==
  { <<"9", "0", "deg", "S", " ", "1", "8", "0", "deg", "E">>,
    <<"9", "1", "deg", "N", " ", "0", "deg", "E">>,
    DmsExample,
    <<"4", "5", "deg", "E", " ", "2", "1", "deg", "S">>,
    <<"1", "6", "5", "deg", "E", " ", "2", "1", "deg", "S">>,
    <<"2", "1", "deg", "S", " ", "1", "6", "5", "deg", "E", " ", "1", "0", "deg", "N">>,
    <<"2", "1", "deg", "S">>,
    <<"2", "1", "deg", "S", " ", "1", "6", "5", "deg">>,
    <<"2", "1", " ", "S", " ", "1", "6", "5", " ", "E">>,
    <<"-", "2", "0", "deg", "S", " ", "1", "6", "4", "deg", "E">>,
    <<"-", "2", "0", "deg", "N", " ", "1", "6", "4", "deg", "W">>,
    <<"2", "0", "deg", "n", " ", "1", "6", "4", "deg", "w">>,
    <<"2", "0", "deg", "6", "0", "'", "S", " ", "1", "6", "4", "deg", "E">>,
    <<"-", "0", "deg", "3", "0", "'", "N", " ", "1", "deg", "E">>,
    <<"2", "0", "deg", "3", "0", "prime", "3", "6", "dprime", "S", " ",
      "1", "6", "4", "deg", "E">>,
    <<" ">> }

\* texts typed in the latitude and longitude boxes of the two-box variant
BoxSamples ==
  { <<"-", "0", ".", "5">>, <<"0", ".", "5">>, <<"-", "2", "1", ".", "5">>,
    <<"1", "6", "5", ".", "5", "1">>, <<"-", "1", "8", "0">>, <<"0">>,
    <<"-", "0", ".", "0", "0", "1">>, <<"1", "7", "9", ".", "9", "9", "9">>, <<"x">> }

\* opacity entries of the create dialog
OpacityEntries == { <<"0", ".", "8">> }

\* positions clicked on the map: one in both Noumea and Dumbea, one outside
\* every region
ClickPoints == { <<Dec(-21, -500), Dec(166, 500)>>, <<Deg(-19), Deg(160)>> }

\* latitude / longitude entries of a point's edit form (NaN: left invalid)
EditEntries ==
  { [lat |-> NaN, lng |-> NaN],
    [lat |-> Num(Dec(-21, -500)), lng |-> Num(Dec(166, 500))] }

Shapes == {"circle", "square"}

\* ---------------------------------------------------------- specifications
LoadNext == FetchResponds \/ FetchFails \/ JsonSettles

\* Text entry in the four input modes, lookups and dataset loading.
InitLocate ==
  /\ InitCommon
  /\ server \in ServerAnswers
  /\ COMMUNES_DATA \in Fallbacks
  /\ server.net /\ server.json => COMMUNES_DATA = Null
  /\ styleControls = ControlsAsBuilt

NextLocate ==
  \/ LoadNext
  \/ \E mode \in {MODE_SINGLE_DEC, MODE_DUAL_DEC, MODE_DMS_BOXES, MODE_SINGLE_DMS} :
       SetMode(mode)
  \/ \E v \in SingleDecFew : TypeSingleDec(v)
  \/ \E v \in DualDecSamples : TypeDualDec(v)
  \/ \E v \in DmsBoxesSamples : TypeDmsBoxes(v)
  \/ \E v \in SingleDmsSamples : TypeSingleDms(v)
  \/ Locate
  \/ ClearBtn

SpecLocate == InitLocate /\ [][NextLocate]_vars

\* The single decimal field alone, with coordinate pairs and name queries.
NextSingleDec ==
  \/ LoadNext
  \/ \E v \in SingleDecSamples : TypeSingleDec(v)
  \/ Locate
  \/ ClearBtn

SpecSingleDec == InitLocate /\ [][NextSingleDec]_vars

\* The six DMS fields alone.
NextDmsBoxes ==
  \/ LoadNext
  \/ SetMode(MODE_DMS_BOXES)
  \/ \E v \in DmsBoxesMany : TypeDmsBoxes(v)
  \/ Locate
  \/ ClearBtn

SpecDmsBoxes == InitLocate /\ [][NextDmsBoxes]_vars

\* The single DMS string field alone.
NextSingleDms ==
  \/ LoadNext
  \/ SetMode(MODE_SINGLE_DMS)
  \/ \E v \in SingleDmsMany : TypeSingleDms(v)
  \/ Locate
  \/ ClearBtn

SpecSingleDms == InitLocate /\ [][NextSingleDms]_vars

\* The two-box variant: typing decimal degrees and toggling to DMS and back.
NextToggle ==
  \/ \E v \in BoxSamples : TypeLatBox(v)
  \/ \E v \in BoxSamples : TypeLonBox(v)
  \/ ToggleFormat

SpecToggle == InitLocate /\ [][NextToggle]_vars

\* The map: clicks, selection mode and user points.
Init ==
  /\ InitCommon
  /\ server = Answer(TRUE, TRUE, PairData)
  /\ COMMUNES_DATA = Null
  /\ styleControls = ControlsAsBuilt

Next ==
  \/ FetchResponds
  \/ JsonSettles
  \/ \E p \in ClickPoints : MapClick(p[1], p[2])
  \/ \E p \in ClickPoints, layer \in 1..2, bubbles \in BOOLEAN :
       LayerClick(layer, p[1], p[2], bubbles)
  \/ \E id \in 1..MaxId, bubbles \in BOOLEAN : MarkerClick(id, bubbles)
  \/ SelectModeBtn
  \/ ClearSelectionBtn
  \/ ClearBtn
  \/ AddPointBtn
  \/ \E o \in OpacityEntries : ModalSubmit(o)
  \/ ModalCancel
  \/ \E id \in 1..MaxId : ListSelect(id)
  \/ \E id \in 1..MaxId, e \in EditEntries, shape \in Shapes :
       SavePoint(id, [lat |-> e.lat, lng |-> e.lng, shape |-> shape,
                      opacity |-> points[findIndex(points, id)].properties.opacity])
  \/ \E id \in 1..MaxId : DeletePointBtn(id)

Spec == Init /\ [][Next]_vars

\* texts typed in the single decimal field next to the map: a pair in both
\* regions, a pair out of range, a name that matches and one that does not
MapTexts ==
  { <<"-", "2", "1", ".", "5", ",", "1", "6", "6", ".", "5">>,
    <<"9", "1", ",", "9", "5">>,
    <<"m", "b">>,
    <<"x", "y", "z">> }

\* The map together with the single decimal field: lookups by text and by
\* click, name search, selection and user points.
NextMapLocate ==
  \/ FetchResponds
  \/ JsonSettles
  \/ \E v \in MapTexts : TypeSingleDec(v)
  \/ Locate
  \/ \E p \in ClickPoints : MapClick(p[1], p[2])
  \/ \E p \in ClickPoints, layer \in 1..2, bubbles \in BOOLEAN :
       LayerClick(layer, p[1], p[2], bubbles)
  \/ SelectModeBtn
  \/ ClearSelectionBtn
  \/ ClearBtn
  \/ AddPointBtn
  \/ \E o \in OpacityEntries : ModalSubmit(o)
  \/ \E id \in 1..MaxId : ListSelect(id)
  \/ \E id \in 1..MaxId, e \in EditEntries :
       SavePoint(id, [lat |-> e.lat, lng |-> e.lng, shape |-> "circle",
                      opacity |-> points[findIndex(points, id)].properties.opacity])
  \/ \E id \in 1..MaxId : DeletePointBtn(id)

SpecMapLocate == Init /\ [][NextMapLocate]_vars

\* texts of the single decimal field: a point of Poum, a point of Noumea, a
\* point outside every region, a name of Poum and of no region
DegradedTexts ==
  { <<"-", "2", "0", ".", "5", ",", "1", "6", "4", ".", "5">>,
    <<"-", "2", "2", ".", "5", ",", "1", "6", "6">>,
    <<"0", ",", "0">>,
    <<"u", "m">>,
    <<"x", "y", "z">> }

\* a point of Poum, a point of Noumea, a point outside every region
DegradedClicks ==
  { <<Dec(-20, -500), Dec(164, 500)>>, <<Dec(-22, -500), Deg(166)>>, <<Deg(0), Deg(0)>> }

\* Lookups on an empty dataset and on one with a malformed feature.
InitDegraded ==
  /\ InitCommon
  /\ server \in {Answer(TRUE, TRUE, EmptyData), Answer(TRUE, TRUE, FaultyData)}
  /\ COMMUNES_DATA = Null
  /\ styleControls = ControlsAsBuilt

NextDegraded ==
  \/ FetchResponds
  \/ JsonSettles
  \/ \E v \in DegradedTexts : TypeSingleDec(v)
  \/ Locate
  \/ \E p \in DegradedClicks : MapClick(p[1], p[2])
  \/ \E p \in DegradedClicks, layer \in 1..3, bubbles \in BOOLEAN :
       LayerClick(layer, p[1], p[2], bubbles)
  \/ SelectModeBtn
  \/ ClearBtn

SpecDegraded == InitDegraded /\ [][NextDegraded]_vars

\* entries of dual decimal mode: a field that is no number, a pair inside both
\* regions (the fields start blank)
DualNonNumeric == [lat |-> <<"x">>, lon |-> <<"0">>]

DualValid == [lat |-> <<"-", "2", "1", ".", "5">>, lon |-> <<"1", "6", "6", ".", "5">>]

\* entries of DMS boxes mode: minutes of 60, a position inside both regions
\* (the fields start blank)
BoxesMinutes == Boxes(<<"-", "2", "1">>, <<"6", "0">>, <<>>, <<"1", "6", "6">>, <<>>, <<>>)

BoxesValid == Boxes(<<"-", "2", "1">>, <<"3", "0">>, <<>>, <<"1", "6", "6">>, <<"3", "0">>, <<>>)

\* texts of the single DMS field: one group, a position inside both regions
DmsOneGroup == <<"2", "1", "deg", "S">>

DmsValid ==
  <<"2", "1", "deg", "3", "0", "'", "S", " ", "1", "6", "6", "deg", "3", "0", "'", "E">>

\* texts of the single decimal field: a pair out of range, a pair inside both
\* regions
SingleOutOfRange == <<"9", "1", ",", "9", "5">>

SingleValid == <<"-", "2", "1", ".", "5", ",", "1", "6", "6", ".", "5">>

\* The four input modes next to a map with user points, one of them selected.
NextRejects ==
  \/ FetchResponds
  \/ JsonSettles
  \/ \E mode \in {MODE_SINGLE_DEC, MODE_DUAL_DEC, MODE_DMS_BOXES, MODE_SINGLE_DMS} :
       SetMode(mode)
  \/ \E v \in {SingleOutOfRange, SingleValid} : TypeSingleDec(v)
  \/ \E v \in {DualNonNumeric, DualValid} : TypeDualDec(v)
  \/ \E v \in {BoxesMinutes, BoxesValid} : TypeDmsBoxes(v)
  \/ \E v \in {DmsOneGroup, DmsValid} : TypeSingleDms(v)
  \/ Locate
  \/ AddPointBtn
  \/ MapClick(Deg(-19), Deg(160))
  \/ \E o \in OpacityEntries : ModalSubmit(o)
  \/ \E id \in 1..MaxId : ListSelect(id)

SpecRejects == Init /\ [][NextRejects]_vars

\* decimal pairs typed in the single decimal field: in Noumea alone, in
\* Noumea and Dumbea, in Dumbea alone, in no region, longitude first, out of
\* range
PairNoumea == <<"-", "2", "2", ".", "5", ",", "1", "6", "5", ".", "5">>

PairBoth == <<"-", "2", "1", ".", "5", ",", "1", "6", "6", ".", "5">>

PairDumbea == <<"-", "2", "0", ".", "5", ",", "1", "6", "7", ".", "5">>

PairNowhere == <<"0", ",", "0">>

PairLonFirst == <<"1", "6", "7", ".", "5", ",", "-", "2", "0", ".", "5">>

PairOutOfRange == <<"9", "1", ",", "1", "8", "1">>

ResolveTexts ==
  {PairNoumea, PairBoth, PairDumbea, PairNowhere, PairLonFirst, PairOutOfRange}

\* Lookups of decimal pairs between clicks, selections, point creation and
\* mode changes.
NextResolve ==
  \/ FetchResponds
  \/ JsonSettles
  \/ \E mode \in {MODE_SINGLE_DEC, MODE_DUAL_DEC} : SetMode(mode)
  \/ \E v \in ResolveTexts : TypeSingleDec(v)
  \/ Locate
  \/ \E p \in ClickPoints : MapClick(p[1], p[2])
  \/ SelectModeBtn
  \/ AddPointBtn
  \/ \E o \in OpacityEntries : ModalSubmit(o)
  \/ \E id \in 1..MaxId : ListSelect(id)

SpecResolve == Init /\ [][NextResolve]_vars

\* characters of the name queries: a composed accented capital and small
\* letter, the combining accent alone, a capital and a small letter
NameAlphabet == {"E_acute", "e_acute", "acute", "N", "o"}

\* the queries are up to MaxNameLen characters long
MaxNameLen == 3

NameTexts == UNION { [1..n -> NameAlphabet] : n \in 0..MaxNameLen }

\* Name queries typed in the single decimal field and looked up.
NextNames ==
  \/ FetchResponds
  \/ JsonSettles
  \/ \E v \in NameTexts : TypeSingleDec(v)
  \/ Locate

SpecNames == Init /\ [][NextNames]_vars

\* the collection of the points specification holds up to ManyPoints points
ManyPoints == 2

\* and hands out ids up to ManyIds
ManyIds == 3

\* latitude / longitude entries of the edit form: left invalid, inside both
\* regions, outside every region, outside the coordinate ranges
PointEdits ==
  { [lat |-> NaN, lng |-> NaN],
    [lat |-> Num(Dec(-21, -500)), lng |-> Num(Dec(166, 500))],
    [lat |-> Num(Deg(-19)), lng |-> Num(Deg(160))],
    [lat |-> Num(Deg(95)), lng |-> Num(Deg(200))] }

\* User points: creation by map click, edit and deletion.
NextPoints ==
  \/ FetchResponds
  \/ JsonSettles
  \/ AddPointBtn
  \/ MapClick(Deg(-19), Deg(160))
  \/ \E layer \in 1..2 : LayerClick(layer, Dec(-21, -500), Dec(166, 500), TRUE)
  \/ \E o \in OpacityEntries : CreateWithin(ManyPoints, ManyIds, o)
  \/ ModalCancel
  \/ \E id \in 1..ManyIds, e \in PointEdits :
       SavePoint(id, [lat |-> e.lat, lng |-> e.lng, shape |-> "circle",
                      opacity |-> points[findIndex(points, id)].properties.opacity])
  \/ \E id \in 1..ManyIds : DeletePointBtn(id)

SpecPoints == Init /\ [][NextPoints]_vars

\* User points next to the selection: points are created, picked from the
\* list or by their marker, edited and deleted while a point or a region may
\* be selected.
NextSelectPoints ==
  \/ FetchResponds
  \/ JsonSettles
  \/ AddPointBtn
  \/ MapClick(Deg(-19), Deg(160))
  \/ \E bubbles \in BOOLEAN : LayerClick(1, Dec(-21, -500), Dec(166, 500), bubbles)
  \/ SelectModeBtn
  \/ \E o \in OpacityEntries : CreateWithin(ManyPoints, ManyIds, o)
  \/ \E id \in 1..ManyIds : ListSelect(id)
  \/ \E id \in 1..ManyIds : MarkerClick(id, FALSE)
  \/ \E id \in 1..ManyIds, e \in EditEntries :
       SavePoint(id, [lat |-> e.lat, lng |-> e.lng, shape |-> "circle",
                      opacity |-> points[findIndex(points, id)].properties.opacity])
  \/ \E id \in 1..ManyIds : DeletePointBtn(id)

SpecSelectPoints == Init /\ [][NextSelectPoints]_vars

\* User points shown and hidden, while the dataset is still on its way:
\* creation, the two kinds of visibility checkbox, edit, selection and
\* deletion.
NextVisibility ==
  \/ AddPointBtn
  \/ MapClick(Deg(-19), Deg(160))
  \/ \E o \in OpacityEntries : CreateWithin(ManyPoints, ManyIds, o)
  \/ TogglePointsChange
  \/ \E id \in 1..ManyIds : VisCheckbox(id)
  \/ \E id \in 1..ManyIds : ListSelect(id)
  \/ ClearSelectionBtn
  \/ \E id \in 1..ManyIds, e \in EditEntries :
       SavePoint(id, [lat |-> e.lat, lng |-> e.lng, shape |-> "circle",
                      opacity |-> points[findIndex(points, id)].properties.opacity])
  \/ \E id \in 1..ManyIds : DeletePointBtn(id)

SpecVisibility == Init /\ [][NextVisibility]_vars

\* texts of the single decimal field next to the "add point from
\* coordinates" button: left empty, a pair in both regions, a pair out of
\* range, a pair that does not parse, a name that matches
CoordTexts ==
  { <<>>,
    <<"-", "2", "1", ".", "5", ",", "1", "6", "6", ".", "5">>,
    <<"9", "1", ",", "9", "5">>,
    <<"1", ".", ",", "2">>,
    <<"m", "b">> }

\* Lookups and point creation from the coordinates entered.
NextCoordPoint ==
  \/ FetchResponds
  \/ JsonSettles
  \/ \E v \in CoordTexts : TypeSingleDec(v)
  \/ Locate
  \/ \E p \in ClickPoints : MapClick(p[1], p[2])
  \/ AddPointCoordBtn
  \/ \E o \in OpacityEntries : ModalSubmit(o)
  \/ ModalCancel
  \/ ClearBtn

SpecCoordPoint == Init /\ [][NextCoordPoint]_vars

\* opacity entries of the create dialog: the two ends of the range, a value
\* inside, one above, one below, none, a word
OpacityMany ==
  { <<"0">>, <<"1">>, <<"0", ".", "5">>, <<"1", ".", "5">>, <<"-", "0", ".", "1">>,
    <<>>, <<"x">> }

\* The create dialog: opened by a map click or from the coordinates entered,
\* cancelled or submitted.
NextCreate ==
  \/ FetchResponds
  \/ JsonSettles
  \/ AddPointBtn
  \/ \E p \in ClickPoints : MapClick(p[1], p[2])
  \/ AddPointCoordBtn
  \/ \E o \in OpacityMany : CreateWithin(ManyPoints, ManyIds, o)
  \/ ModalCancel
  \/ \E id \in 1..ManyIds : DeletePointBtn(id)

SpecCreate == Init /\ [][NextCreate]_vars

\* the basemap radios
Basemaps == {"osm", "gmap", "gsat", "gter"}

\* The base tile layers: the startup probe, the basemap radios and the dark
\* mode checkbox, while the dataset loads.
NextTiles ==
  \/ FetchResponds
  \/ JsonSettles
  \/ ProbeResolves
  \/ \E val \in Basemaps : BasemapChange(val)
  \/ DarkModeToggle

SpecTiles == Init /\ [][NextTiles]_vars

\* what the fetch can meet: no response, a body that is not JSON, a JSON
\* document without a features array, the dataset, an empty dataset
LoadAnswers ==
  { Answer(FALSE, FALSE, BadDocument), Answer(TRUE, FALSE, BadDocument),
    Answer(TRUE, TRUE, BadDocument), Answer(TRUE, TRUE, FullData),
    Answer(TRUE, TRUE, EmptyData) }

\* texts of the single decimal field: a point of Poum, a point outside every
\* region
LoadTexts ==
  { <<"-", "2", "0", ".", "5", ",", "1", "6", "4", ".", "5">>,
    <<"0", ",", "0">> }

\* The load of the dataset with or without the embedded fallback, and lookups
\* before and after it.  The promise chain runs on: a fetch settles, and a
\* settled promise's callbacks are run.
InitLoad ==
  /\ InitCommon
  /\ server \in LoadAnswers
  /\ COMMUNES_DATA \in Fallbacks
  /\ styleControls = ControlsAsBuilt

NextLoad ==
  \/ LoadNext
  \/ \E v \in LoadTexts : TypeSingleDec(v)
  \/ Locate

SpecLoadFair == InitLoad /\ [][NextLoad]_vars /\ WF_vars(LoadNext)

\* The lazy-loading variant: startup with or without a deep link, searches,
\* the lazy toggle and the awaits of loadCommuneLayer().
InitLazy ==
  /\ InitCommon
  /\ server = Answer(TRUE, TRUE, FullData)
  /\ COMMUNES_DATA \in Fallbacks
  /\ styleControls = ControlsAsBuilt

NextLazy ==
  \/ \E deepLink \in BOOLEAN : DOMContentLoaded(deepLink)
  \/ TypeLatBox(HashLat)
  \/ TypeLonBox(HashLon)
  \/ SearchButton
  \/ LazyToggleBtn
  \/ \E i \in 1..MaxCalls, ok \in BOOLEAN : LoadSettles(i, ok)

SpecLazy == InitLazy /\ [][NextLazy]_vars

\* values of the three mini inputs of the latitude: in range, minutes of 75,
\* seconds of 60, degrees left blank
LatMinis ==
  { <<<<"-", "2", "1">>, <<"3", "0">>, <<"0">>>>,
    <<<<"-", "2", "1">>, <<"7", "5">>, <<"0">>>>,
    <<<<"-", "2", "1">>, <<"0">>, <<"6", "0">>>>,
    <<<<>>, <<"3", "0">>, <<"0">>>> }

\* and of the longitude: in range, degrees left blank, degrees of 181
LonMinis ==
  { <<<<"1", "6", "5">>, <<"3", "0">>, <<"0">>>>,
    <<<<>>, <<"3", "0">>, <<"0">>>>,
    <<<<"1", "8", "1">>, <<"0">>, <<"0">>>> }

\* the page with the dataset embedded
InitDmsSearch ==
  /\ InitLazy
  /\ COMMUNES_DATA # Null

\* The two-box variant with its boxes toggled to DMS, once, and searched.
NextDmsSearch ==
  \/ DOMContentLoaded(FALSE)
  \/ ~usingDMS /\ ToggleFormat
  \/ \E v \in BoxSamples : TypeLatBox(v)
  \/ \E v \in LatMinis : TypeDmsInputs("lat", v)
  \/ \E v \in LonMinis : TypeDmsInputs("lon", v)
  \/ SearchButton

SpecDmsSearch == InitDmsSearch /\ [][NextDmsSearch]_vars

\* The map with pointer hovering over the polygons, selection and user points.
NextHover ==
  \/ FetchResponds
  \/ JsonSettles
  \/ \E p \in ClickPoints : MapClick(p[1], p[2])
  \/ \E p \in ClickPoints, layer \in 1..2, bubbles \in BOOLEAN :
       LayerClick(layer, p[1], p[2], bubbles)
  \/ \E id \in 1..MaxId, bubbles \in BOOLEAN : MarkerClick(id, bubbles)
  \/ \E layer \in 1..2 : Mouseover(layer)
  \/ \E layer \in 1..2 : Mouseout(layer)
  \/ SelectModeBtn
  \/ ClearSelectionBtn
  \/ AddPointBtn
  \/ \E o \in OpacityEntries : ModalSubmit(o)
  \/ \E id \in 1..MaxId : ListSelect(id)
  \/ \E id \in 1..MaxId : DeletePointBtn(id)

SpecHover == Init /\ [][NextHover]_vars

\* The polygons alone: hovering, selection and the style controls.
InitStyle ==
  /\ InitCommon
  /\ server = Answer(TRUE, TRUE, PairData)
  /\ COMMUNES_DATA = Null
  /\ styleControls \in StyleValues

NextStyle ==
  \/ FetchResponds
  \/ JsonSettles
  \/ \E p \in ClickPoints : MapClick(p[1], p[2])
  \/ \E p \in ClickPoints, layer \in 1..2, bubbles \in BOOLEAN :
       LayerClick(layer, p[1], p[2], bubbles)
  \/ \E layer \in 1..2 : Mouseover(layer)
  \/ \E layer \in 1..2 : Mouseout(layer)
  \/ \E c \in StyleValues : StyleInput(c)
  \/ SelectModeBtn
  \/ ClearSelectionBtn
  \/ ClearBtn

SpecStyle == InitStyle /\ [][NextStyle]_vars

\* ------------------------------------------------------------- properties
LocateOps ==
  {"locateFromSingleDec", "locateFromDualDec", "locateFromDmsBoxes", "locateFromSingleDms"}

\* both coordinates inside the documented ranges, bounds included
InRange(lat, lon) ==
  /\ Deg(-90) <= lat /\ lat <= Deg(90)
  /\ Deg(-180) <= lon /\ lon <= Deg(180)

Least(S) == CHOOSE i \in S : \A j \in S : i <= j

\* the regions of fs containing (lat, lng), as a set of positions
Containing(fs, lat, lng) ==
  { i \in 1..Len(fs) :
      /\ fs[i].geom.south <= lat /\ lat <= fs[i].geom.north
      /\ fs[i].geom.west <= lng /\ lng <= fs[i].geom.east }

\* position of the first region of fs containing (lat, lng), 0 for none
FirstContaining(fs, lat, lng) ==
  IF Containing(fs, lat, lng) = {} THEN 0 ELSE Least(Containing(fs, lat, lng))

Features(layers) == [i \in 1..Len(layers) |-> layers[i].feature]

\* C1: whatever the input mode, a pair handed to validation is identified
\* exactly when latitude is in [-90,90] and longitude in [-180,180], bounds
\* included; an accepted pair is the position of the marker, unchanged; a
\* rejected pair raises the range message and leaves marker, view and status
\* as they were.
C1_RangeChecked ==
  [][ /\ ( lastOp'.op \in LocateOps
           /\ lastOp'.arg.lat.t = "num" /\ lastOp'.arg.lon.t = "num" )
         => IF InRange(lastOp'.arg.lat.v, lastOp'.arg.lon.v)
            THEN /\ lastOp'.arg.identified
                 /\ activeMarker' # Null
                 /\ activeMarker'[1].lat = lastOp'.arg.lat.v
                 /\ activeMarker'[1].lng = lastOp'.arg.lon.v
            ELSE /\ ~lastOp'.arg.identified
                 /\ toasts' = <<MsgRange>>
                 /\ UNCHANGED <<activeMarker, view, status, points>>
      /\ ( lastOp'.op = "locateFromDualDec"
           /\ dualDecInputs = [lat |-> <<"9", "1">>, lon |-> <<"0">>] )
         => toasts' = <<MsgRange>> /\ UNCHANGED activeMarker
      /\ ( lastOp'.op = "locateFromSingleDec"
           /\ singleDecInput = <<"-", "2", "0", ".", "5", ",", "1", "8", "1">> )
         => toasts' = <<MsgRange>> /\ UNCHANGED activeMarker
      /\ ( lastOp'.op = "locateFromDmsBoxes" /\ dmsBoxesInputs.latSec = <<"0", ".", "1">> )
         => toasts' = <<MsgRange>> /\ UNCHANGED activeMarker
      /\ ( lastOp'.op = "locateFromSingleDms"
           /\ singleDmsInput = <<"9", "1", "deg", "N", " ", "0", "deg", "E">> )
         => toasts' = <<MsgRange>> /\ UNCHANGED activeMarker
    ]_vars

\* a rejected lookup leaves the marker of an earlier lookup at -90, 180
C1_Witness ==
  /\ lastOp.op \in LocateOps
  /\ toasts = <<MsgRange>>
  /\ activeMarker # Null
  /\ activeMarker[1].lat = Deg(-90)
  /\ activeMarker[1].lng = Deg(180)

\* the click that was handled last also ran the map's click handler
ReachedMap(op) ==
  op.op = "mapClick" \/ (op.op \in {"layerClick", "markerClick"} /\ op.arg.bubbles)

\* C2: where several regions contain a point, coordinate identification, the
\* selection-mode map click, point creation and point edit all resolve to the
\* first containing region in the order of the dataset.
C2_FirstRegionInOrder ==
  [][ communeLayer # Null =>
        LET fs == Features(communeLayer[1])
            first(lat, lng) == FirstContaining(fs, lat, lng)
        IN /\ ( /\ ReachedMap(lastOp') \/ lastOp'.op = "layerClick"
                /\ ~selectionMode /\ ~addingPoint
                /\ first(lastOp'.arg.lat, lastOp'.arg.lng) # 0 )
              => /\ activeMarker' # Null
                 /\ activeMarker'[1].popup =
                      Text("Commune", fs[first(lastOp'.arg.lat, lastOp'.arg.lng)].name)
           /\ ( /\ ReachedMap(lastOp')
                /\ selectionMode /\ ~addingPoint
                /\ first(lastOp'.arg.lat, lastOp'.arg.lng) # 0 )
              => selectedPolygon' = first(lastOp'.arg.lat, lastOp'.arg.lng)
           /\ ( /\ lastOp'.op = "submitPoint"
                /\ first(lastOp'.arg[1], lastOp'.arg[2]) # 0 )
              => points'[Len(points')].properties.commune =
                   fs[first(lastOp'.arg[1], lastOp'.arg[2])].name
           /\ lastOp'.op = "updatePoint"
              => LET idx == findIndex(points, lastOp'.arg.id)
                     old == points[idx]
                     new == points'[idx]
                 IN ( /\ new.lat # old.lat \/ new.lng # old.lng
                      /\ first(new.lat, new.lng) # 0 )
                    => new.properties.commune = fs[first(new.lat, new.lng)].name
    ]_vars

\* a click in the overlap of Noumea and Dumbea was identified as Noumea, and a
\* point there is filed under Noumea
C2_Witness ==
  /\ lastOp.op = "layerClick"
  /\ Cardinality(Containing(Features(communeLayer[1]), lastOp.arg.lat, lastOp.arg.lng)) = 2
  /\ activeMarker # Null
  /\ activeMarker[1].popup = Text("Commune", Noumea.name)
  /\ \E i \in 1..Len(points) :
       /\ Cardinality(Containing(Features(communeLayer[1]), points[i].lat, points[i].lng)) = 2
       /\ points[i].properties.commune = Noumea.name

\* C3: a point and a region are never selected together; selecting one
\* leaves the other kind unselected.
C3_OneKindSelected == ~(selectedPointId # 0 /\ selectedPolygon # 0)

\* a point was selected while a region was, and the region is no longer
C3_Witness ==
  /\ lastOp.op = "selectPoint"
  /\ lastOp.arg.polygon # 0
  /\ selectedPointId = lastOp.arg.id
  /\ selectedPolygon = 0

\* the layer shows the hover highlight
HoverLit(layer) == \A k \in DOMAIN HoverStyle : layer.options[k] = HoverStyle[k]

\* the layer shows the selection highlight
SelectLit(layer) == \A k \in DOMAIN SelectedStyle : layer.options[k] = SelectedStyle[k]

\* the point's marker shows the selection highlight
PointLit(pt) == pt.marker.radius = 9 \/ pt.marker.iconSize = 16

LitPoints == { i \in 1..Len(points) : PointLit(points[i]) }

SelectLitRegions ==
  IF communeLayer = Null THEN {}
  ELSE { i \in 1..Len(communeLayer[1]) : SelectLit(communeLayer[1][i]) }

HoverLitRegions ==
  IF communeLayer = Null THEN {}
  ELSE { i \in 1..Len(communeLayer[1]) : HoverLit(communeLayer[1][i]) }

C5_Original ==
  [][ ( /\ lastOp.op = "layerClick"
        /\ lastOp.arg.prior # Null
        /\ selectedPolygon # 0
        /\ selectedPolygon' # selectedPolygon )
      => communeLayer'[1][selectedPolygon].options = lastOp.arg.prior[1]
    ]_vars

\* the attributes of a marker that selection changes
MarkerStyle(m) == <<m.radius, m.weight, m.iconSize>>

\* C6 as stated: a point that stops being selected has the marker attributes
\* its marker was built with when the point was created or last edited.
C6_Original ==
  [][ ( /\ selectedPointId # 0
        /\ selectedPointId' # selectedPointId
        /\ findIndex(points', selectedPointId) # 0 )
      => LET pt == points'[findIndex(points', selectedPointId)]
         IN MarkerStyle(pt.marker) = MarkerStyle(newMarker(pt.shape))
    ]_vars

\* C7 as stated: a lookup, by coordinates or by name, handled before the load
\* has completed ends with the "data not loaded" notification.
C7_Original ==
  ( /\ lastOp.op \in LocateOps
    /\ lastOp.arg.identified \/ lastOp.arg.named
    /\ loadPc # "done" )
  => \E i \in 1..Len(toasts) : toasts[i] = MsgDataNotLoaded

\* the document the load ends with: the fetched one, else the embedded one
Loaded == IF server.net /\ server.json THEN Some(server.body) ELSE COMMUNES_DATA

\* C8: the layer is absent until the load completes and then holds every
\* region of the loaded document, in order; a lookup after the load is
\* answered from all of them.
C8_WholeDataset ==
  /\ loadPc # "done" => communeLayer = Null
  /\ loadPc = "done" =>
       IF Loaded = Null THEN communeLayer = Null
       ELSE /\ communeLayer # Null
            /\ Features(communeLayer[1]) = Loaded[1].features
  /\ ( lastOp.op \in LocateOps /\ lastOp.arg.identified /\ communeLayer # Null )
     => LET fs == Loaded[1].features
            f == FirstContaining(fs, lastOp.arg.lat.v, lastOp.arg.lon.v)
        IN /\ activeMarker # Null
           /\ activeMarker[1].popup =
                IF f = 0 THEN Text(MsgNotFound, <<>>) ELSE Text("Commune", fs[f].name)

\* after the load a point of the last region of the document is identified
C8_Witness ==
  /\ loadPc = "done"
  /\ lastOp.op \in LocateOps
  /\ lastOp.arg.identified
  /\ communeLayer # Null
  /\ Len(communeLayer[1]) = 3
  /\ activeMarker[1].popup = Text("Commune", Poum.name)

\* the regions whose normalized name contains the normalized query
NameMatches(layers, raw) ==
  { i \in 1..Len(layers) : includes(normalize(layers[i].feature.name), normalize(trim(raw))) }

\* C9: a name query resolves to the first region, in dataset order, whose
\* name matches without regard to case and accents, and to nothing when no
\* region matches.
C9_FirstNameMatch ==
  ( lastOp.op = "locateFromSingleDec" /\ lastOp.arg.named /\ communeLayer # Null )
  => LET layers == communeLayer[1]
         M == NameMatches(layers, singleDecInput)
     IN /\ IF M = {}
           THEN /\ toasts = <<MsgNoMatch>>
                /\ status = Text("No match found", <<>>)
           ELSE /\ toasts = <<>>
                /\ view.fit = Least(M)
                /\ status = Text("Found commune", layers[Least(M)].feature.name)
        /\ Len(layers) = 3 =>
             /\ singleDecInput = <<"E", "A">> => view.fit = 1
             /\ singleDecInput = <<"E_acute">> => view.fit = 1
             /\ singleDecInput = <<"m", "b">> => view.fit = 2
             /\ singleDecInput = <<"P", "o", "u", "m">> => view.fit = 3
             /\ singleDecInput = <<"u", "m">> => view.fit = 1
             /\ singleDecInput = <<"x", "y", "z">> => toasts = <<MsgNoMatch>>

\* a query that matches all three regions resolved to the first of them
C9_Witness ==
  /\ lastOp.op = "locateFromSingleDec"
  /\ lastOp.arg.named
  /\ singleDecInput = <<"u", "m">>
  /\ communeLayer # Null
  /\ Cardinality(NameMatches(communeLayer[1], singleDecInput)) = 3
  /\ view.fit = 1
  /\ status = Text("Found commune", Noumea.name)

\* C10: a pair in the single decimal field is swapped exactly when its first
\* number is outside [-90,90] and its second inside; the resulting pair is
\* range-validated, and is where the marker goes when accepted.
C10_AxisSwap ==
  ( lastOp.op = "locateFromSingleDec" /\ singleDecMatch(trim(singleDecInput)) # Null )
  => LET m == singleDecMatch(trim(singleDecInput))[1]
         a == parseFloat(m[1]).v
         b == parseFloat(m[2]).v
         swap == (a < Deg(-90) \/ a > Deg(90)) /\ (Deg(-90) <= b /\ b <= Deg(90))
         lat == IF swap THEN b ELSE a
         lon == IF swap THEN a ELSE b
     IN /\ lastOp.arg.lat = Num(lat)
        /\ lastOp.arg.lon = Num(lon)
        /\ IF InRange(lat, lon)
           THEN /\ lastOp.arg.identified
                /\ activeMarker # Null
                /\ activeMarker[1].lat = lat
                /\ activeMarker[1].lng = lon
           ELSE /\ ~lastOp.arg.identified
                /\ toasts = <<MsgRange>>
        /\ singleDecInput = <<"2", "0", "0", ",", "4", "5">> => toasts = <<MsgRange>>
        /\ singleDecInput = <<"9", "1", ",", "9", "5">> => toasts = <<MsgRange>>
        /\ singleDecInput = <<"9", "1", ",", "0">>
           => activeMarker # Null /\ activeMarker[1].lat = 0 /\ activeMarker[1].lng = Deg(91)

\* "165.5,-21.5" was located at latitude -21.5, longitude 165.5
C10_Witness ==
  /\ lastOp.op = "locateFromSingleDec"
  /\ singleDecInput = <<"1", "6", "5", ".", "5", ",", "-", "2", "1", ".", "5">>
  /\ lastOp.arg.identified
  /\ activeMarker # Null
  /\ activeMarker[1].lat = Dec(-21, -500)
  /\ activeMarker[1].lng = Dec(165, 500)

\* this step is a handler of ops running (a step of the load keeps lastOp or
\* sets it to "load", and moves loadPc)
Handled(ops) == lastOp'.op \in ops /\ loadPc' = loadPc

\* s is an optional minus sign, digits, and optionally a point and digits
IsNumeral(s) ==
  \E neg \in {0, 1} :
    /\ neg = 1 => Len(s) >= 1 /\ s[1] = "-"
    /\ \E k \in (neg + 1)..Len(s) :
         /\ \A j \in (neg + 1)..k : s[j] \in Digits
         /\ \/ k = Len(s)
            \/ /\ k + 2 <= Len(s)
               /\ s[k + 1] = "."
               /\ \A j \in (k + 2)..Len(s) : s[j] \in Digits

\* raw is "number, number": two numerals around one comma, blanks allowed
IsPair(raw) ==
  \E c \in 1..Len(raw) :
    /\ raw[c] = ","
    /\ IsNumeral(trim(SubSeq(raw, 1, c - 1)))
    /\ IsNumeral(trim(SubSeq(raw, c + 1, Len(raw))))

\* the notifications of the name resolver
NameToasts == {MsgDataNotLoaded, MsgNoMatch}

\* the notifications that report a coordinate that could not be used
ParseToasts ==
  {MsgInvalidNumbers, MsgCouldNotParse, MsgRange, MsgBothRequired, MsgDegreesRequired,
   MsgInvalidDms, MsgMinSecRange, MsgDmsUnparseable, MsgInvalidDmsString}

Range(seq) == { seq[i] : i \in 1..Len(seq) }

\* C11: in the single decimal field, an input that is not blank and is not
\* "number, number" goes to the name resolver, raises no parse error and
\* leaves the locate marker alone; an input that is "number, number" never
\* goes to the name resolver; a blank input does nothing.
C11_NameFallback ==
  [][ Handled({"locateFromSingleDec"}) =>
        IF trim(singleDecInput) = <<>>
        THEN /\ ~lastOp'.arg.named /\ ~lastOp'.arg.identified
             /\ toasts' = <<>>
             /\ UNCHANGED <<activeMarker, view, status>>
        ELSE IF IsPair(trim(singleDecInput))
        THEN /\ ~lastOp'.arg.named
             /\ Range(toasts') \cap NameToasts = {}
             /\ IF lastOp'.arg.identified
                THEN view'.fit = 0 /\ status'.msg \in {"Commune", MsgNotFound}
                ELSE UNCHANGED <<activeMarker, view, status>>
        ELSE /\ lastOp'.arg.named
             /\ ~lastOp'.arg.identified
             /\ Range(toasts') \cap ParseToasts = {}
             /\ UNCHANGED activeMarker
             /\ IF communeLayer = Null THEN toasts' = <<MsgDataNotLoaded>>
                ELSE status'.msg \in {"Found commune", "No match found"}
    ]_vars

\* "1,2,3" was taken as a name query while the marker of an earlier lookup
\* stayed where it was
C11_Witness ==
  /\ lastOp.op = "locateFromSingleDec"
  /\ singleDecInput = <<"1", ",", "2", ",", "3">>
  /\ lastOp.arg.named
  /\ toasts = <<MsgNoMatch>>
  /\ activeMarker # Null


\* the number a DMS field stands for: 0 when blank, else what parseFloat reads
FieldNum(str) == IF trim(str) = <<>> THEN Zero ELSE parseFloat(trim(str))

\* n is a number outside [0,60)
OutsideSixty(n) == n.t = "num" /\ (n.v < 0 \/ n.v >= 60 * Scale)

\* v is -(|deg| + min/60 + sec/3600) when deg is negative, and
\* +(|deg| + min/60 + sec/3600) otherwise (the equation is multiplied by 60)
AxisValue(v, deg, min, sec) ==
  /\ sec % 60 = 0
  /\ 60 * (Abs(v) - Abs(deg)) = min + sec \div 60
  /\ v < 0 <=> deg < 0

\* the handler showed msg and did nothing else
Rejected(msgs) ==
  /\ ~lastOp'.arg.identified
  /\ toasts' \in { <<m>> : m \in msgs }
  /\ UNCHANGED <<activeMarker, view, status>>

\* C12: in DMS boxes mode both degrees fields are required, blank minutes and
\* seconds count as 0, minutes or seconds outside [0,60) are rejected, and
\* otherwise each axis is sign(deg) * (|deg| + min/60 + sec/3600), negative
\* exactly when the degrees are negative.
C12_DmsFields ==
  [][ Handled({"locateFromDmsBoxes"}) =>
        LET f == dmsBoxesInputs
            six == << FieldNum(f.latDeg), FieldNum(f.latMin), FieldNum(f.latSec),
                      FieldNum(f.lonDeg), FieldNum(f.lonMin), FieldNum(f.lonSec) >>
        IN IF trim(f.latDeg) = <<>> \/ trim(f.lonDeg) = <<>>
           THEN Rejected({MsgDegreesRequired})
           ELSE IF \E i \in {2, 3, 5, 6} : OutsideSixty(six[i])
           THEN Rejected({MsgMinSecRange, MsgInvalidDms})
           ELSE IF \E i \in 1..6 : six[i].t # "num"
           THEN Rejected({MsgInvalidDms})
           ELSE /\ lastOp'.arg.lat.t = "num"
                /\ lastOp'.arg.lon.t = "num"
                /\ AxisValue(lastOp'.arg.lat.v, six[1].v, six[2].v, six[3].v)
                /\ AxisValue(lastOp'.arg.lon.v, six[4].v, six[5].v, six[6].v)
                /\ lastOp'.arg.identified
                   <=> InRange(lastOp'.arg.lat.v, lastOp'.arg.lon.v)
                /\ lastOp'.arg.identified =>
                     /\ activeMarker' # Null
                     /\ activeMarker'[1].lat = lastOp'.arg.lat.v
                     /\ activeMarker'[1].lng = lastOp'.arg.lon.v
    ]_vars

\* -21 deg 30 min with blank seconds, 165 deg 30 min 36 s was located at
\* latitude -21.5, longitude 165.51
C12_Witness ==
  /\ lastOp.op = "locateFromDmsBoxes"
  /\ dmsBoxesInputs.latDeg = <<"-", "2", "1">>
  /\ dmsBoxesInputs.latSec = <<>>
  /\ dmsBoxesInputs.lonSec = <<"3", "6">>
  /\ lastOp.arg.identified
  /\ activeMarker # Null
  /\ activeMarker[1].lat = Dec(-21, -500)
  /\ activeMarker[1].lng = Dec(165, 510)


\* the groups of the text in the single DMS field, in the order they occur
DmsGroups == dmsMatches(trim(singleDmsInput), 1)

\* the numbers written in a DMS group: degrees, minutes, seconds
GroupNums(g) == <<parseFloat(g[1]), FieldNum(g[2]), FieldNum(g[3])>>

\* the group holds three numbers, minutes and seconds in [0,60)
GroupUsable(g) ==
  /\ \A i \in 1..3 : GroupNums(g)[i].t = "num"
  /\ ~OutsideSixty(GroupNums(g)[2])
  /\ ~OutsideSixty(GroupNums(g)[3])

\* the marker was placed at (lat, lng)
MarkerAt(lat, lng) ==
  /\ activeMarker' # Null
  /\ activeMarker'[1].lat = lat
  /\ activeMarker'[1].lng = lng

\* C13: in single DMS mode the first group is the latitude and the second
\* the longitude whatever their letters, further groups are ignored, and a
\* text with fewer than two groups is rejected as unparseable without a
\* lookup.
C13_PositionalAxes ==
  [][ ( Handled({"locateFromSingleDms"}) /\ trim(singleDmsInput) # <<>> ) =>
        /\ IF Len(DmsGroups) < 2
           THEN Rejected({MsgDmsUnparseable})
           ELSE /\ lastOp'.arg.lat = dmsMatchToDecimal(DmsGroups[1])
                /\ lastOp'.arg.lon = dmsMatchToDecimal(DmsGroups[2])
                /\ lastOp'.arg.identified =>
                     MarkerAt(lastOp'.arg.lat.v, lastOp'.arg.lon.v)
        /\ singleDmsInput = <<"4", "5", "deg", "E", " ", "2", "1", "deg", "S">>
           => MarkerAt(Deg(45), Deg(-21))
        /\ singleDmsInput = <<"1", "6", "5", "deg", "E", " ", "2", "1", "deg", "S">>
           => Rejected({MsgRange}) /\ lastOp'.arg.lat = Num(Deg(165))
        /\ Len(singleDmsInput) = 15 => MarkerAt(Deg(-21), Deg(165))
        /\ singleDmsInput = <<"2", "1", "deg", "S">> => Rejected({MsgDmsUnparseable})
        /\ singleDmsInput = <<"2", "1", "deg", "S", " ", "1", "6", "5", "deg">>
           => Rejected({MsgDmsUnparseable})
        /\ singleDmsInput = <<"2", "1", " ", "S", " ", "1", "6", "5", " ", "E">>
           => Rejected({MsgDmsUnparseable})
    ]_vars

\* "45 deg E 21 deg S" was located at latitude 45, longitude -21
C13_Witness ==
  /\ lastOp.op = "locateFromSingleDms"
  /\ singleDmsInput = <<"4", "5", "deg", "E", " ", "2", "1", "deg", "S">>
  /\ lastOp.arg.identified
  /\ activeMarker # Null
  /\ activeMarker[1].lat = Deg(45)
  /\ activeMarker[1].lng = Deg(-21)

SouthWest == {"S", "W", "s", "w"}

\* v is the value of group g: |deg| + min/60 + sec/3600, negative when the
\* degrees are below zero or else when the letter is S or W
GroupValue(v, g) ==
  /\ GroupNums(g)[3].v % 60 = 0
  /\ 60 * (Abs(v) - Abs(GroupNums(g)[1].v)) = GroupNums(g)[2].v + GroupNums(g)[3].v \div 60
  /\ IF GroupNums(g)[1].v < 0 \/ g[4][1] \in SouthWest THEN v <= 0 ELSE v >= 0

\* x is within tol of the decimal number whole.frac4 (four decimals), all in
\* tenths of 1/Scale
Near(x, whole, frac4, tol) ==
  Abs(10 * x - (whole * 360000 + frac4 * 36)) <= tol

\* one ten-thousandth of a degree, in tenths of 1/Scale
Tol4 == (10 * Scale) \div 10000

\* C14 as amended: each of the two groups is |deg| + min/60 + sec/3600, made
\* negative when the degrees are numerically below zero and otherwise exactly
\* when the letter is S or W, never negated twice; the example string yields
\* (-20.7388, 164.7949) to four decimals.
C14_GroupSign ==
  [][ ( /\ Handled({"locateFromSingleDms"})
        /\ Len(DmsGroups) >= 2 )
      => /\ IF GroupUsable(DmsGroups[1]) /\ GroupUsable(DmsGroups[2])
            THEN /\ lastOp'.arg.lat.t = "num"
                 /\ lastOp'.arg.lon.t = "num"
                 /\ GroupValue(lastOp'.arg.lat.v, DmsGroups[1])
                 /\ GroupValue(lastOp'.arg.lon.v, DmsGroups[2])
            ELSE Rejected({MsgInvalidDmsString})
         /\ SubSeq(singleDmsInput, 1, 3) = <<"-", "0", "deg">> =>
              MarkerAt(Deg(1) \div 2, Deg(1))
         /\ singleDmsInput = DmsExample =>
              /\ Near(lastOp'.arg.lat.v, -20, -7388, Tol4)
              /\ Near(lastOp'.arg.lon.v, 164, 7949, Tol4)
              /\ MarkerAt(lastOp'.arg.lat.v, lastOp'.arg.lon.v)
         /\ SubSeq(singleDmsInput, 1, 4) = <<"-", "2", "0", "deg">> =>
              /\ lastOp'.arg.lat = Num(Deg(-20))
              /\ lastOp'.arg.lon = Num(IF singleDmsInput[11] = "W" THEN Deg(-164) ELSE Deg(164))
    ]_vars

\* "-20 deg S 164 deg E" was located at latitude -20, longitude 164
C14_Witness ==
  /\ lastOp.op = "locateFromSingleDms"
  /\ singleDmsInput = <<"-", "2", "0", "deg", "S", " ", "1", "6", "4", "deg", "E">>
  /\ lastOp.arg.identified
  /\ activeMarker # Null
  /\ activeMarker[1].lat = Deg(-20)
  /\ activeMarker[1].lng = Deg(164)

\* C14 as stated: the example string yields (-20.7388, 164.7947) to four
\* decimals.
C14_Original ==
  ( /\ lastOp.op = "locateFromSingleDms"
    /\ singleDmsInput = DmsExample
    /\ lastOp.arg.identified )
  => /\ Near(lastOp.arg.lat.v, -20, -7388, Tol4)
     /\ Near(lastOp.arg.lon.v, 164, 7947, Tol4)


\* one unit of the model's arithmetic, 1/Scale degree
RoundTripTol == Scale \div Scale

\* a and b are numbers no further apart than the tolerance
Close(a, b) == a.t = "num" /\ b.t = "num" /\ Abs(a.v - b.v) <= RoundTripTol

\* C15 as stated: dms2dec(dec2dms(x)) is x within the tolerance, sign
\* included, for the number in either box, and a box toggled to DMS and back
\* holds the number it held before.
C15_Original ==
  /\ \A box \in {latBox, lonBox} :
       Close(dms2dec(dec2dms(FloatOrZero(box))), FloatOrZero(box))
  /\ ( lastOp.op = "toggleFormat" /\ ~usingDMS )
     => /\ Close(parseFloat(latBox), FloatOrZero(lastOp.arg.lat))
        /\ Close(parseFloat(lonBox), FloatOrZero(lastOp.arg.lon))


\* the events the claim C16 names: selecting, clearing, deleting
SelectionOps ==
  {"mapClick", "layerClick", "markerClick", "selectPoint", "clearSelectionBtn",
   "clearBtn", "deletePoint"}

\* C16 as stated: selecting a point or a region, clearing the selection and
\* deleting a point leave selection mode as it was; only the selection-mode
\* button changes it.
C16_Original ==
  [][ /\ Handled(SelectionOps) => selectionMode' = selectionMode
      /\ selectionMode' # selectionMode => lastOp'.op = "selectModeBtn"
    ]_vars

ClickOps == {"mapClick", "layerClick", "markerClick"}

\* this step is a click handled in the mode given, with no point being added
ClickIn(mode) == Handled(ClickOps) /\ ~addingPoint /\ selectionMode = mode

\* this step is a coordinate lookup: a locate handler or a click reached
\* identifyAt
LookupStep ==
  \/ Handled(LocateOps) /\ lastOp'.arg.identified
  \/ ClickIn(FALSE) /\ (ReachedMap(lastOp') \/ lastOp'.op = "layerClick")

\* where the lookup of this step was made
LookupAt ==
  IF lastOp'.op \in LocateOps
  THEN <<lastOp'.arg.lat.v, lastOp'.arg.lon.v>>
  ELSE <<lastOp'.arg.lat, lastOp'.arg.lng>>

\* this step selects or clears a selection
SelectionStep ==
  \/ Handled({"selectPoint", "clearSelectionBtn", "selectModeBtn"})
  \/ ClickIn(TRUE)

\* C18: the map holds at most one locate marker, the one activeMarker refers
\* to; every coordinate lookup puts it at the looked-up position and leaves
\* the selection alone; selecting and clearing a selection leave the marker
\* alone.
C18_MarkerSlot ==
  [][ /\ locateMarkersOnMap' = (IF activeMarker' = Null THEN 0 ELSE 1)
      /\ LookupStep =>
           /\ MarkerAt(LookupAt[1], LookupAt[2])
           /\ UNCHANGED <<selectedPolygon, selectedPointId>>
      /\ SelectionStep => UNCHANGED <<activeMarker, locateMarkersOnMap>>
    ]_vars

\* a typed pair was located while a region was selected: the marker is there,
\* alone, and the region is still selected
C18_Witness ==
  /\ lastOp.op \in LocateOps
  /\ lastOp.arg.identified
  /\ selectedPolygon # 0
  /\ activeMarker # Null
  /\ locateMarkersOnMap = 1

\* the regions whose name matches the text in the single decimal field
TypedMatches ==
  IF communeLayer = Null THEN {} ELSE NameMatches(communeLayer[1], singleDecInput)

ThrowsAt(fs, lat, lng) ==
  \E i \in 1..Len(fs) :
    /\ fs[i].geom = Malformed
    /\ \A j \in 1..(i - 1) : j \notin Containing(fs, lat, lng)

\* the loaded collection yields no region for (lat, lng): it is empty, no
\* region contains the point, or the primitive throws
NoRegionAt(lat, lng) ==
  /\ communeLayer # Null
  /\ \/ communeLayer[1] = <<>>
     \/ Containing(Features(communeLayer[1]), lat, lng) = {}
     \/ ThrowsAt(Features(communeLayer[1]), lat, lng)

\* C20: on a loaded collection that yields no region for the point, a
\* coordinate lookup runs to its end with the "not found" outcome: the view
\* is centred, the marker is dropped at the point with the "not found" text,
\* the same text is announced and no error is shown; a name lookup matching
\* no region runs to its end with "No match found".
C20_NotFoundNoThrow ==
  [][ /\ ( LookupStep /\ NoRegionAt(LookupAt[1], LookupAt[2]) ) =>
           /\ MarkerAt(LookupAt[1], LookupAt[2])
           /\ activeMarker'[1].popup = Text(MsgNotFound, <<>>)
           /\ status' = Text(MsgNotFound, <<>>)
           /\ toasts' = <<>>
           /\ view'.lat = LookupAt[1] /\ view'.lng = LookupAt[2]
           /\ UNCHANGED <<communeLayer, selectedPolygon, selectedPointId>>
      /\ ( Handled({"locateFromSingleDec"}) /\ lastOp'.arg.named
             /\ communeLayer # Null /\ TypedMatches = {} ) =>
           /\ toasts' = <<MsgNoMatch>>
           /\ status' = Text("No match found", <<>>)
           /\ UNCHANGED <<communeLayer, activeMarker, view, selectedPolygon>>
    ]_vars

\* a point of Noumea was looked up on the dataset whose malformed feature
\* comes before Noumea: the primitive threw and the outcome is "not found"
C20_Witness ==
  /\ lastOp.op = "locateFromSingleDec"
  /\ lastOp.arg.identified
  /\ communeLayer # Null
  /\ Len(communeLayer[1]) = 3
  /\ Containing(Features(communeLayer[1]), lastOp.arg.lat.v, lastOp.arg.lon.v) = {3}
  /\ activeMarker # Null
  /\ activeMarker[1].popup = Text(MsgNotFound, <<>>)
  /\ status = Text(MsgNotFound, <<>>)

\* a lookup and a name search on the empty collection ended normally
C20_WitnessEmpty ==
  /\ communeLayer = Some(<<>>)
  /\ lastOp.op = "locateFromSingleDec"
  /\ lastOp.arg.named
  /\ status = Text("No match found", <<>>)
  /\ activeMarker # Null
  /\ activeMarker[1].popup = Text(MsgNotFound, <<>>)


\* this step is a lookup that ended without a coordinate or a name lookup
RejectedStep == Handled(LocateOps) /\ ~lastOp'.arg.identified /\ ~lastOp'.arg.named

\* the entry of the current mode is one of those given
Entered(mode, field, values) == currentMode = mode /\ field \in values

\* the entry of the current mode is the blank or unusable one
BadEntry ==
  \/ Entered(MODE_SINGLE_DEC, singleDecInput, {<<>>, SingleOutOfRange})
  \/ Entered(MODE_DUAL_DEC, dualDecInputs, {NoDual, DualNonNumeric})
  \/ Entered(MODE_DMS_BOXES, dmsBoxesInputs, {NoDms, BoxesMinutes})
  \/ Entered(MODE_SINGLE_DMS, singleDmsInput, {<<>>, DmsOneGroup})

\* the entry of the current mode is the position -21.5, 166.5
GoodEntry ==
  \/ Entered(MODE_SINGLE_DEC, singleDecInput, {SingleValid})
  \/ Entered(MODE_DUAL_DEC, dualDecInputs, {DualValid})
  \/ Entered(MODE_DMS_BOXES, dmsBoxesInputs, {BoxesValid})
  \/ Entered(MODE_SINGLE_DMS, singleDmsInput, {DmsValid})

\* C21: a lookup whose entry is blank, not a number, has minutes of 60, has a
\* single DMS group or is out of range is rejected, and a rejected lookup
\* changes nothing but the notification: marker, selection, selection mode,
\* points, input mode, entries and view stay; a lookup with a valid entry,
\* whatever came before it, drops the marker at the entered position.
C21_RejectedNoChange ==
  [][ /\ ( Handled(LocateOps) /\ BadEntry ) =>
           /\ RejectedStep
           /\ toasts' = <<>> <=> ( \/ Entered(MODE_SINGLE_DEC, singleDecInput, {<<>>})
                                    \/ Entered(MODE_SINGLE_DMS, singleDmsInput, {<<>>}) )
      /\ RejectedStep =>
           /\ toasts' = <<>> \/ toasts' \in { <<m>> : m \in ParseToasts }
           /\ UNCHANGED <<activeMarker, locateMarkersOnMap, view, status, communeLayer,
                          selectedPolygon, selectedPointId, selectionMode,
                          points, pointIdCounter, addingPoint, modal, inputVars>>
      /\ ( Handled(LocateOps) /\ GoodEntry ) =>
           /\ lastOp'.arg.identified
           /\ MarkerAt(Dec(-21, -500), Dec(166, 500))
           /\ view'.lat = Dec(-21, -500) /\ view'.lng = Dec(166, 500)
           /\ communeLayer # Null => activeMarker'[1].popup = Text("Commune", Noumea.name)
    ]_vars

\* minutes of 60 were rejected while an earlier lookup's marker was on the
\* map and a user point was selected
C21_Witness ==
  /\ lastOp.op = "locateFromDmsBoxes"
  /\ ~lastOp.arg.identified
  /\ dmsBoxesInputs = BoxesMinutes
  /\ toasts = <<MsgMinSecRange>>
  /\ activeMarker # Null
  /\ selectedPointId # 0
  /\ selectionMode
  /\ points # <<>>


\* C22 as stated: every user point lies inside the coordinate ranges.
C22_Original ==
  \A i \in 1..Len(points) : InRange(points[i].lat, points[i].lng)

\* the point with the id given, in the collection given
PointOf(pts, id) == pts[findIndex(pts, id)]

\* C23 as stated: with the dataset loaded, an edit that moves a point leaves
\* it with the name of the first region containing its new position, or with
\* none when no region contains it; an edit that does not move it leaves its
\* region name alone.
C23_Original ==
  [][ ( Handled({"updatePoint"}) /\ communeLayer # Null ) =>
        LET id == lastOp'.arg.id
            old == PointOf(points, id)
            new == PointOf(points', id)
            fs == Features(communeLayer[1])
            first == FirstContaining(fs, new.lat, new.lng)
        IN IF new.lat # old.lat \/ new.lng # old.lng
           THEN new.properties.commune = (IF first = 0 THEN <<>> ELSE fs[first].name)
           ELSE new.properties.commune = old.properties.commune
    ]_vars

Ids(pts) == { pts[i].id : i \in 1..Len(pts) }

\* C24: the ids in the collection are pairwise distinct and below the
\* counter, the counter never decreases, a created point takes the counter's
\* value, above every id handed out before, and an edit or a deletion changes
\* no id of the points that stay.
C24_UniqueIds ==
  [][ /\ Cardinality(Ids(points')) = Len(points')
      /\ \A id \in Ids(points') : id < pointIdCounter'
      /\ pointIdCounter' >= pointIdCounter
      /\ Handled({"submitPoint"}) =>
           /\ Len(points') = Len(points) + 1
           /\ SubSeq(points', 1, Len(points)) = points
           /\ points'[Len(points')].id = pointIdCounter
           /\ pointIdCounter' = pointIdCounter + 1
           /\ \A id \in Ids(points) : id < points'[Len(points')].id
      /\ Handled({"updatePoint"}) =>
           /\ [i \in 1..Len(points') |-> points'[i].id] = [i \in 1..Len(points) |-> points[i].id]
           /\ pointIdCounter' = pointIdCounter
      /\ Handled({"deletePoint"}) =>
           /\ Ids(points') = Ids(points) \ {lastOp'.arg}
           /\ pointIdCounter' = pointIdCounter
    ]_vars

\* after the second point was deleted, a third was created: the collection
\* holds the ids 1 and 3
C24_Witness ==
  /\ lastOp.op = "submitPoint"
  /\ Len(points) = 2
  /\ points[1].id = 1
  /\ points[2].id = 3
  /\ pointIdCounter = 4


\* the fetch or the reading of its body fails
LoadRejects == ~server.net \/ ~server.json

\* the embedded dataset is installed as the region collection
FallbackInstalled ==
  /\ loadPc = "done"
  /\ COMMUNES_DATA # Null
  /\ communeLayer # Null
  /\ Features(communeLayer[1]) = COMMUNES_DATA[1].features

\* C25: when the fetch or the reading of its body fails and the embedded
\* dataset is defined, the load ends with that dataset installed, and every
\* lookup after it resolves against its regions; every load ends, with a
\* collection installed or with the failure notified.
C25_FallbackLoad ==
  /\ ( LoadRejects /\ COMMUNES_DATA # Null ) ~> FallbackInstalled
  /\ <>( /\ lastOp.op = "load"
         /\ loadPc = "done"
         /\ communeLayer # Null \/ toasts = <<MsgFailedParse>> )
  /\ [][ ( LookupStep /\ LoadRejects /\ COMMUNES_DATA # Null /\ loadPc = "done" ) =>
           LET fs == COMMUNES_DATA[1].features
               first == FirstContaining(fs, LookupAt[1], LookupAt[2])
           IN /\ FallbackInstalled
              /\ MarkerAt(LookupAt[1], LookupAt[2])
              /\ activeMarker'[1].popup =
                   IF first = 0 THEN Text(MsgNotFound, <<>>)
                   ELSE Text("Commune", fs[first].name)
        ]_vars

\* the body of the response was no JSON, the embedded dataset was installed
\* and a point of Poum was resolved against it
C25_Witness ==
  /\ server.net /\ ~server.json
  /\ FallbackInstalled
  /\ lastOp.op = "locateFromSingleDec"
  /\ activeMarker # Null
  /\ activeMarker[1].popup = Text("Commune", Poum.name)


\* the load ended with no dataset: neither the fetch nor the fallback gave one
LoadFailed == loadPc = "done" /\ communeLayer = Null

\* C26 as stated: after a load that ended with no dataset, every lookup
\* reports that resolution is unavailable - a name lookup by the "data not
\* loaded" notification, a coordinate lookup by an outcome that is neither of
\* the outcomes of a loaded dataset - and a pair is looked up exactly when it
\* is inside the ranges.
C26_Original ==
  ( LoadFailed /\ lastOp.op \in LocateOps ) =>
    /\ lastOp.arg.named => toasts = <<MsgDataNotLoaded>>
    /\ lastOp.arg.identified =>
         \/ MsgDataNotLoaded \in Range(toasts)
         \/ activeMarker[1].popup.msg \notin {MsgNotFound, "Commune"}
    /\ ( lastOp.arg.lat # NullNum /\ lastOp.arg.lon # NullNum ) =>
         ( lastOp.arg.identified <=>
             /\ isFinite(lastOp.arg.lat) /\ isFinite(lastOp.arg.lon)
             /\ InRange(lastOp.arg.lat.v, lastOp.arg.lon.v) )


\* C27 as stated: the local copy is requested at most once, at most one
\* commune layer is ever created, and at most one is on the map.
C27_Original ==
  /\ lazy.fetches <= 1
  /\ lazy.created <= 1
  /\ Cardinality(lazy.onMap) <= 1


\* the region f holds the position: its latitude between the region's south
\* and north, its longitude between west and east
Holds(f, lat, lng) ==
  /\ f.geom.south <= lat /\ lat <= f.geom.north
  /\ f.geom.west <= lng /\ lng <= f.geom.east

\* name is the name of a region that holds the position
NamesHolder(fs, name, lat, lng) ==
  \E i \in 1..Len(fs) : fs[i].name = name /\ Holds(fs[i], lat, lng)

Held(fs, lat, lng) == \E i \in 1..Len(fs) : Holds(fs[i], lat, lng)

\* C28: every call site of the point-in-polygon primitive resolves the very
\* position it is handling, longitude against west and east and latitude
\* against south and north: the marker's text names a region holding the
\* marker's position, and "not found" appears only when none holds it; a
\* selection click selects a region holding the clicked position; a created
\* or moved point is filed under a region holding its stored position
\* whenever one does.
C28_LongitudeFirst ==
  [][ communeLayer # Null =>
        LET fs == Features(communeLayer[1])
        IN /\ ( LookupStep \/ ( Handled({"layerClick"}) /\ ~selectionMode ) ) =>
                /\ activeMarker' # Null
                /\ IF Held(fs, activeMarker'[1].lat, activeMarker'[1].lng)
                   THEN /\ activeMarker'[1].popup.msg = "Commune"
                        /\ NamesHolder(fs, activeMarker'[1].popup.name,
                                       activeMarker'[1].lat, activeMarker'[1].lng)
                   ELSE activeMarker'[1].popup.msg = MsgNotFound
           /\ ( ClickIn(TRUE) /\ ReachedMap(lastOp') /\ lastOp'.op # "markerClick" ) =>
                IF Held(fs, lastOp'.arg.lat, lastOp'.arg.lng)
                THEN /\ selectedPolygon' # 0
                     /\ Holds(fs[selectedPolygon'], lastOp'.arg.lat, lastOp'.arg.lng)
                ELSE selectedPolygon' = 0
           /\ Handled({"submitPoint"}) =>
                LET pt == points'[Len(points')]
                IN IF Held(fs, pt.lat, pt.lng)
                   THEN NamesHolder(fs, pt.properties.commune, pt.lat, pt.lng)
                   ELSE pt.properties.commune = <<>>
           /\ Handled({"updatePoint"}) =>
                LET old == PointOf(points, lastOp'.arg.id)
                    new == PointOf(points', lastOp'.arg.id)
                IN ( (new.lat # old.lat \/ new.lng # old.lng) /\ Held(fs, new.lat, new.lng) )
                   => NamesHolder(fs, new.properties.commune, new.lat, new.lng)
    ]_vars

\* a point created outside every region was moved into Noumea and is filed
\* under it, next to a marker whose text names the region holding it
C28_Witness ==
  /\ lastOp.op = "updatePoint"
  /\ isFinite(lastOp.arg.updates.lat)
  /\ LET pt == PointOf(points, lastOp.arg.id)
     IN /\ pt.properties.commune = Noumea.name
        /\ Holds(Noumea, pt.lat, pt.lng)
  /\ activeMarker # Null
  /\ activeMarker[1].popup.msg = "Commune"
  /\ Holds(Noumea, activeMarker[1].lat, activeMarker[1].lng)


\* what a lookup of the sample pair is to present on PairData: the position
\* of the marker and the text of its popup
Presented(lat, lng, text) == [lat |-> lat, lng |-> lng, text |-> text]

OutcomeOf(pair) ==
  CASE pair = PairNoumea -> Presented(Dec(-22, -500), Dec(165, 500), Text("Commune", Noumea.name))
    [] pair = PairBoth -> Presented(Dec(-21, -500), Dec(166, 500), Text("Commune", Noumea.name))
    [] pair = PairDumbea -> Presented(Dec(-20, -500), Dec(167, 500), Text("Commune", Dumbea.name))
    [] pair = PairLonFirst -> Presented(Dec(-20, -500), Dec(167, 500), Text("Commune", Dumbea.name))
    [] pair = PairNowhere -> Presented(Deg(0), Deg(0), Text(MsgNotFound, <<>>))

\* C29: with the dataset loaded, what a lookup of a decimal pair presents is
\* decided by the pair alone: the same pair gives the same marker position,
\* the same region and the same status text, and an out-of-range pair the
\* same rejection, whatever marker, selection, selection mode, user points
\* or input mode the earlier steps left.
C29_Deterministic ==
  [][ ( /\ Handled({"locateFromSingleDec"})
        /\ communeLayer # Null
        /\ singleDecInput \in ResolveTexts )
      => LET out == OutcomeOf(singleDecInput)
         IN IF singleDecInput = PairOutOfRange
            THEN /\ toasts' = <<MsgRange>>
                 /\ activeMarker' = activeMarker
                 /\ status' = status
            ELSE /\ activeMarker' # Null
                 /\ activeMarker'[1].lat = out.lat
                 /\ activeMarker'[1].lng = out.lng
                 /\ activeMarker'[1].popup = out.text
                 /\ status' = out.text
                 /\ toasts' = <<>>
    ]_vars

\* the pair of Dumbea was looked up with selection mode on, a user point
\* selected, and resolved to Dumbea
C29_Witness ==
  /\ lastOp.op = "locateFromSingleDec"
  /\ singleDecInput = PairDumbea
  /\ activeMarker # Null
  /\ activeMarker[1].popup = Text("Commune", Dumbea.name)
  /\ selectionMode
  /\ selectedPointId # 0
  /\ Len(points) > 0


\* C30: normalising is idempotent: normalising the normalised form of a
\* name query, or of a region's name, gives the normalised form back.
C30_NormalizeIdempotent ==
  /\ normalize(normalize(singleDecInput)) = normalize(singleDecInput)
  /\ communeLayer # Null =>
       \A i \in 1..Len(communeLayer[1]) :
         LET name == NameOf(communeLayer[1], i)
         IN normalize(normalize(name)) = normalize(name)

\* a query with a composed accented capital and a combining accent, which
\* normalising changes, was looked up by name
C30_Witness ==
  /\ lastOp.op = "locateFromSingleDec"
  /\ lastOp.arg.named
  /\ \E i, j \in 1..Len(singleDecInput) :
       singleDecInput[i] = "E_acute" /\ singleDecInput[j] = "acute"
  /\ normalize(singleDecInput) # singleDecInput
  /\ normalize(singleDecInput) # <<>>


\* C31: while a point is being added, a click on the map or on a region's
\* polygon opens the create dialog at the clicked position and ends the
\* adding, and changes neither the locate marker nor the selection, whatever
\* the selection mode.
C31_Original ==
  [][ ( Handled({"mapClick", "layerClick"}) /\ addingPoint )
      => /\ modal' = Some(<<lastOp'.arg.lat, lastOp'.arg.lng>>)
         /\ ~addingPoint'
         /\ UNCHANGED <<activeMarker, locateMarkersOnMap>>
         /\ UNCHANGED <<selectedPolygon, selectedPointId, selectionMode>>
    ]_vars


\* the text is a number at least 0 and below 60; blank counts as 0
MiniInRange(text) ==
  text = <<>> \/ (Ge(parseFloat(text), Zero) /\ Lt(parseFloat(text), Sixty))

\* the three mini inputs of an axis are acceptable: degrees given, minutes
\* and seconds in [0,60)
MinisAcceptable(inputs) ==
  /\ inputs[1] # <<>>
  /\ MiniInRange(inputs[2])
  /\ MiniInRange(inputs[3])

\* this step is a search of the two-box variant
SearchStep ==
  /\ lazy'.op = "search"
  /\ lazy' # lazy
  /\ UNCHANGED <<usingDMS, dmsInputs, latBox, lonBox>>

\* C32: a search with the boxes toggled to DMS is rejected, and no lookup
\* made, when the degrees of an axis are blank or its minutes or seconds are
\* outside [0,60).
C32_Original ==
  [][ ( /\ SearchStep
        /\ usingDMS
        /\ ~(MinisAcceptable(dmsInputs[1].lat) /\ MinisAcceptable(dmsInputs[1].lon)) )
      => /\ lazy'.a11yMsg = MsgOutOfRange
         /\ lazy'.located = lazy.located
         /\ lazy'.highlightLayer = lazy.highlightLayer
         /\ lazy'.calls = lazy.calls
    ]_vars


\* C33: whenever a point or a region is selected, selection mode is on.
C33_SelectionNeedsMode ==
  (selectedPointId # 0 \/ selectedPolygon # 0) => selectionMode

\* a point picked from the list is selected, selection mode on with it
C33_Witness ==
  /\ lastOp.op = "selectPoint"
  /\ selectedPointId = lastOp.arg.id
  /\ selectedPolygon = 0
  /\ selectionMode


\* C34: a selected point id is the id of a point in the collection; a
\* deletion removes the point with the id given and no other, leaves the
\* other points as they were, ends the selection when the deleted point was
\* the selected one, and leaves a selected region or another selected point
\* selected.
C34_NoDanglingSelection ==
  [][ /\ selectedPointId' # 0 => selectedPointId' \in Ids(points')
      /\ Handled({"deletePoint"}) =>
           /\ Len(points') = Len(points) - 1
           /\ Ids(points') = Ids(points) \ {lastOp'.arg}
           /\ \A id \in Ids(points') : PointOf(points', id) = PointOf(points, id)
           /\ selectedPolygon' = selectedPolygon
           /\ IF selectedPointId = lastOp'.arg
              THEN selectedPointId' = 0 /\ selectedPolygon' = 0
              ELSE selectedPointId' = selectedPointId
    ]_vars

\* a point was deleted while a region was selected and another point stayed
C34_Witness ==
  /\ lastOp.op = "deletePoint"
  /\ lastOp.arg \notin Ids(points)
  /\ Len(points) = 1
  /\ selectedPolygon # 0
  /\ selectedPointId = 0

\* the first of two points was deleted while the second was selected
C34_WitnessOther ==
  /\ lastOp.op = "deletePoint"
  /\ lastOp.arg = 1
  /\ selectedPointId = 2
  /\ Ids(points) = {2}


\* C35: while a region is selected it carries the selection highlight, and
\* while a point is selected its marker carries it, through hovering, style
\* changes and edits.
C35_Original ==
  /\ ( selectedPolygon # 0 /\ communeLayer # Null ) => selectedPolygon \in SelectLitRegions
  /\ selectedPointId # 0 => \E i \in LitPoints : points[i].id = selectedPointId


\* C36: the marker of a user point is on the map exactly when the point's
\* visible flag is true.
C36_Original ==
  \A i \in 1..Len(points) : points[i].marker.onMap = points[i].visible


\* C37: "add point from coordinates" opens the create dialog at the pair its
\* own lookup parsed and validated, and opens no dialog when the entry is
\* empty, does not parse, is out of range or is a name, also while a locate
\* marker of an earlier lookup is on the map.
C37_Original ==
  [][ Handled({"addPointCoord"})
      => IF lastOp'.arg.identified
         THEN modal' = Some(<<lastOp'.arg.lat.v, lastOp'.arg.lon.v>>)
         ELSE modal' = Null
    ]_vars


\* the opacity a point gets from the entry: the number entered when it is in
\* [0,1], otherwise 0.8
OpacityFor(text) ==
  IF Ge(parseFloat(text), Zero) /\ Le(parseFloat(text), Num(Scale))
  THEN parseFloat(text).v
  ELSE (8 * Scale) \div 10

\* C38: Cancel in the create dialog closes it, adds no point and leaves the
\* id counter; Create adds one point at the end of the collection, at the
\* position the dialog was last opened for, with the opacity entered when
\* that is a number in [0,1] and 0.8 otherwise.
C38_CreateDialog ==
  [][ /\ Handled({"cancelPoint"}) =>
           /\ modal' = Null
           /\ points' = points
           /\ pointIdCounter' = pointIdCounter
      /\ Handled({"submitPoint"}) =>
           /\ modal' = Null
           /\ Len(points') = Len(points) + 1
           /\ SubSeq(points', 1, Len(points)) = points
           /\ points'[Len(points')].lat = modal[1][1]
           /\ points'[Len(points')].lng = modal[1][2]
           /\ points'[Len(points')].properties.opacity = OpacityFor(lastOp'.arg[3])
           /\ points'[Len(points')].properties.opacity >= 0
           /\ points'[Len(points')].properties.opacity <= Scale
    ]_vars

\* a second point was created with an opacity entry of 1.5 and got 0.8; two
\* ids have been used for the two points
C38_Witness ==
  /\ lastOp.op = "submitPoint"
  /\ lastOp.arg[3] = <<"1", ".", "5">>
  /\ Len(points) = 2
  /\ points[2].properties.opacity = (8 * Scale) \div 10
  /\ points[2].lat = lastOp.arg[1]
  /\ pointIdCounter = 3


\* C39: at most one base tile layer is on the map, currentBase refers to it,
\* and while dark mode is on it is the dark layer.
C39_Original ==
  /\ Cardinality(tiles.onMap) <= 1
  /\ tiles.onMap \subseteq {tiles.currentBase}
  /\ tiles.darkMode => tiles.onMap \subseteq {"dark"}


====
